---- MODULE Spec2Model ----
(***************************************************************************)
(* A model of wtop.py (class WekaMonitor): the poll cycle, the aggregation *)
(* of provider rows into host rows, sorting, the column configuration and  *)
(* the key dispatcher with its two views, help overlay and command buffer. *)
(*                                                                         *)
(* Conventions.                                                            *)
(*  - A name (host name, role, group key) is a sequence of atoms; the atom *)
(*    "-" is the dash character, every other atom is dash-free text.  So   *)
(*    f"{hostname}-{role}" is hostname \o <<"-">> \o role, str.split('-')  *)
(*    cuts at the "-" atoms and str.startswith is the prefix relation.     *)
(*  - None is <<>> for selected_host and "" for sort_column (both are      *)
(*    falsy in the source's tests `if self.selected_host`, `if column`).   *)
(*  - Metric values are fixed-point numbers with Scale units per 1.0, so   *)
(*    that sum / node_count is exact for every group the bounds allow.     *)
(*  - refresh_rate is counted in tenths of a second (10 is 1.0 s).         *)
(*  - The micro sign of 'Read Latency(µs)' is written "u".                 *)
(*  - backend_hosts and visible_columns are written but never read by the  *)
(*    logic modelled here (visible_columns only feeds len() in the footer) *)
(*    and are left out.                                                    *)
(***************************************************************************)
EXTENDS Integers, Sequences, FiniteSets, TLC

VARIABLES
    hosts,                    \* self.hosts: ordered host rows
    metric_columns,           \* self.metric_columns
    main_view_metric_columns, \* self.main_view_metric_columns
    current_mode,             \* "client" | "backend"
    refresh_rate,             \* self.refresh_rate in tenths of a second
    cluster_status,           \* self.cluster_status
    selected_row,             \* self.selected_row
    row_selection_mode,       \* self.row_selection_mode
    row_selection_input,      \* self.row_selection_input, a sequence of keys
    current_view,             \* "main" | "node_details"
    selected_host,            \* self.selected_host (<<>> is None)
    node_details,             \* self.node_details
    showing_help,             \* self.showing_help
    sort_column,              \* self.sort_column ("" is None)
    sort_reverse,             \* self.sort_reverse
    role_filters,             \* self.role_filters
    running,                  \* FALSE once urwid.ExitMainLoop was raised
    calls,                    \* provider commands run by the last step
    last_op,                  \* the handler branch the last step took
    status_stale,             \* history: cluster_status predates the last poll
    drill_entry_columns,      \* history: metric_columns when Main was left
    cycle_ops,                \* history: number of cycle_column calls so far
    last_sort_command,        \* history: the last sort command that was applied
    pc,                       \* where update_data_and_display stands ("idle": not running)
    alarms,                   \* number of alarms pending in the urwid main loop
    csv_rows,                 \* the data rows of the CSV text handed to the aggregation
    totals,                   \* what calculate_node_totals returned for the totals row
    cluster_status_text       \* what self.cluster_status_text shows

vars == <<hosts, metric_columns, main_view_metric_columns, current_mode,
          refresh_rate, cluster_status, selected_row, row_selection_mode,
          row_selection_input, current_view, selected_host, node_details,
          showing_help, sort_column, sort_reverse, role_filters, running,
          calls, last_op, status_stale, drill_entry_columns, cycle_ops,
          last_sort_command, pc, alarms, csv_rows, totals, cluster_status_text>>

----------------------------------------------------------------------------
(* Bounds of the model. *)

\* most raw rows one provider answer holds
MaxRaw == 2
\* largest raw metric value the provider reports
MaxVal == 1
\* longest command buffer the user types
MaxInput == 3
\* most cycle_column calls in one run
MaxCycles == 2
\* highest digit key the user presses
MaxDigit == 2

----------------------------------------------------------------------------
(* Generic helpers. *)

Min(a, b) == IF a < b THEN a ELSE b
Max(a, b) == IF a > b THEN a ELSE b

Range(s) == {s[i] : i \in 1..Len(s)}

BoundedSeq(S, n) == UNION {[1..k -> S] : k \in 0..n}

RECURSIVE Gcd(_, _)
Gcd(a, b) == IF b = 0 THEN a ELSE Gcd(b, a % b)

RECURSIVE LcmUpTo(_)
LcmUpTo(n) == IF n <= 1 THEN 1 ELSE (LcmUpTo(n - 1) * n) \div Gcd(LcmUpTo(n - 1), n)

\* fixed-point units per 1.0: every row count of a group divides it
Scale == LcmUpTo(MaxRaw + 1)

IsPrefix(p, s) == Len(p) <= Len(s) /\ SubSeq(s, 1, Len(p)) = p

----------------------------------------------------------------------------
(* The metric catalog. *)

\* self.available_metrics without 'Hostname', in dict order
Catalog == <<"CPU%", "Ops/s", "Reads/s", "Writes/s", "Read Latency(us)",
             "Write Latency(us)", "L6 Recv", "L6 Sent", "OBS Upload",
             "OBS Download", "RDMA Recv", "RDMA Sent">>

CatalogSet == Range(Catalog)

SummedMetrics == {"Ops/s", "Reads/s", "Writes/s", "L6 Recv", "L6 Sent",
                  "OBS Upload", "OBS Download", "RDMA Recv", "RDMA Sent"}

AveragedMetrics == {"CPU%", "Read Latency(us)", "Write Latency(us)"}

ZeroVals == [m \in CatalogSet |-> 0]

----------------------------------------------------------------------------
(* What the two providers can answer (the inputs of a poll cycle). *)

DASH == "-"

\* host names the stats provider reports
HostNames == {<<"h", "1">>, <<"h", "2">>}

\* the 'Roles' values the stats provider reports in backend mode
ProviderRoles == {<<"DRIVES">>, <<"COMPUTE">>}

\* the one metric whose raw value varies; the provider reports 0 elsewhere
VariedMetrics == {"Ops/s"}

RawVals == {[m \in CatalogSet |-> IF m \in VariedMetrics THEN g[m] ELSE 0] :
              g \in [VariedMetrics -> 0..MaxVal]}

\* one CSV data row of `weka stats realtime`; Roles is <<>> when the
\* column was not requested (client mode)
RawRows(roles) == [Hostname : HostNames, Roles : roles, vals : RawVals]

\* an answer of `weka stats realtime`: a failure (non-zero return code,
\* timeout) or the data rows under the header
StatsAnswers(roles, n) ==
    {[ok |-> FALSE, rows |-> <<>>]} \cup
    {[ok |-> TRUE, rows |-> r] : r \in BoundedSeq(RawRows(roles), n)}

ModeRoles(mode) == IF mode = "backend" THEN ProviderRoles ELSE {<<>>}

\* the answers to the drill-down query of one host in client mode: the
\* provider applies the filter hostname=<host> itself
HostDetailAnswers(host, n) ==
    {a \in StatsAnswers({<<>>}, n) : \A i \in 1..Len(a.rows) : a.rows[i].Hostname = host}

\* an answer of `weka status -J`: a failure or a snapshot
EmptyStatus == [present |-> FALSE, status |-> ""]
StatusSnapshots == {[present |-> TRUE, status |-> s] : s \in {"OK", "DEGRADED"}}
StatusAnswers == {[ok |-> FALSE, data |-> EmptyStatus]} \cup
                 {[ok |-> TRUE, data |-> d] : d \in StatusSnapshots}

----------------------------------------------------------------------------
(* Parsing and aggregation. *)

\* the metrics whose cell is empty in a CSV row (none unless the row says so)
EmptyCells(row) == IF "empty" \in DOMAIN row THEN row.empty ELSE {}

Digits == <<"0", "1", "2", "3", "4", "5", "6", "7", "8", "9">>

DigitValue(c) == (CHOOSE i \in 1..10 : Digits[i] = c) - 1

IsDigit(c) == c \in Range(Digits)

RECURSIVE DigitsValue(_)
DigitsValue(s) ==
    IF s = <<>> THEN 0
    ELSE 10 * DigitsValue(SubSeq(s, 1, Len(s) - 1)) + DigitValue(s[Len(s)])

AllDigits(s) == s # <<>> /\ \A i \in 1..Len(s) : IsDigit(s[i])

\* str.isspace on the characters a cell can hold
IsSpace(ch) == ch = " "

RECURSIVE lstrip(_)
lstrip(s) == IF s # <<>> /\ IsSpace(s[1]) THEN lstrip(Tail(s)) ELSE s

RECURSIVE rstrip(_)
rstrip(s) ==
    IF s # <<>> /\ IsSpace(s[Len(s)]) THEN rstrip(SubSeq(s, 1, Len(s) - 1)) ELSE s

\* float(text) on a text without '.', exponent or digit separators: blanks
\* around the literal are skipped, one sign may lead the digits;
\* [ok |-> FALSE] stands for ValueError
float(s) ==
    LET t == rstrip(lstrip(s))
    IN  IF AllDigits(t) THEN [ok |-> TRUE, val |-> DigitsValue(t)]
        ELSE IF t # <<>> /\ t[1] \in {"+", "-"} /\ AllDigits(Tail(t))
             THEN [ok |-> TRUE,
                   val |-> IF t[1] = "-" THEN 0 - DigitsValue(Tail(t))
                           ELSE DigitsValue(Tail(t))]
             ELSE [ok |-> FALSE, val |-> 0]

\* _to_float: float(value), else float of the digits, dots and dashes that
\* value holds, else 0.0
to_float(value) ==
    IF value \in {<<>>, <<"0">>} THEN 0
    ELSE IF float(value).ok THEN float(value).val
    ELSE LET cleaned == SelectSeq(value, LAMBDA ch : IsDigit(ch) \/ ch \in {".", "-"})
         IN  IF cleaned # <<>> /\ float(cleaned).ok THEN float(cleaned).val ELSE 0

\* s.split(): the maximal runs of non-blank characters, in order
RECURSIVE split(_)
split(s) ==
    LET t == lstrip(s)
        blanks == {i \in 1..Len(t) : IsSpace(t[i])}
        n == IF blanks = {} THEN Len(t)
             ELSE (CHOOSE i \in blanks : \A j \in blanks : i <= j) - 1
    IN  IF t = <<>> THEN <<>>
        ELSE <<SubSeq(t, 1, n)>> \o split(SubSeq(t, n + 1, Len(t)))

\* _to_float_bandwidth: float of the text, of its first token when it holds
\* a blank; 0.0 when float or the [0] of an empty split() raises
to_float_bandwidth(value) ==
    IF value \in {<<>>, <<"0">>} THEN 0
    ELSE IF \E i \in 1..Len(value) : value[i] = " "
         THEN IF split(value) # <<>> /\ float(split(value)[1]).ok
              THEN float(split(value)[1]).val ELSE 0
         ELSE IF float(value).ok THEN float(value).val ELSE 0

\* the columns parsed with _to_float_bandwidth
BandwidthMetrics == {"L6 Recv", "L6 Sent", "OBS Upload", "OBS Download",
                     "RDMA Recv", "RDMA Sent"}

\* the number a row's cell of column m gives: a row that spells its cells
\* out as text is coerced, any other row carries the number itself
CellNumber(row, m) ==
    IF "cells" \notin DOMAIN row THEN row.vals[m]
    ELSE IF m \in BandwidthMetrics THEN to_float_bandwidth(row.cells[m])
    ELSE to_float(row.cells[m])

\* the value of CSV column m of a row: only the metrics of metric_columns
\* were requested with -o, a missing column reads as row.get(m, 0), and
\* _to_float of a number is that number, of '' it is 0.0
CsvValue(row, m, cols) ==
    IF m \in Range(cols) /\ m \notin EmptyCells(row) THEN CellNumber(row, m) * Scale ELSE 0

ParsedVals(row, cols) == [m \in CatalogSet |-> CsvValue(row, m, cols)]

\* f"{hostname}-{role}"
host_key(hostname, role) == hostname \o <<DASH>> \o role

GroupKeyOf(row, mode) ==
    IF mode = "backend" THEN host_key(row.Hostname, row.Roles) ELSE row.Hostname

GroupKeysPerRow(rows, mode) == [i \in 1..Len(rows) |-> GroupKeyOf(rows[i], mode)]

\* the keys of host_groups in insertion order
RECURSIVE GroupKeys(_, _)
GroupKeys(rows, mode) ==
    IF rows = <<>> THEN <<>>
    ELSE LET front == GroupKeys(SubSeq(rows, 1, Len(rows) - 1), mode)
             k == GroupKeyOf(rows[Len(rows)], mode)
         IN IF k \in Range(front) THEN front ELSE Append(front, k)

FirstVal(vs, m) == IF vs = <<>> THEN 0 ELSE vs[1][m]

\* aggregated[key] += node[key] over the nodes of a group
RECURSIVE SumVals(_, _)
SumVals(vs, m) == IF vs = <<>> THEN 0 ELSE vs[1][m] + SumVals(Tail(vs), m)

\* the averaging step: aggregated[key] /= node_count when aggregated[key] > 0
AverageOf(sum, node_count) == IF sum > 0 THEN sum \div node_count ELSE sum

\* the aggregated metrics of one group of parsed rows
AggregateVals(vs) ==
    [m \in CatalogSet |->
        IF m \in AveragedMetrics THEN AverageOf(SumVals(vs, m), Len(vs))
        ELSE SumVals(vs, m)]

GroupRows(rows, mode, k) ==
    SelectSeq(rows, LAMBDA r : GroupKeyOf(r, mode) = k)

ParsedGroup(rows, mode, k, cols) ==
    LET g == GroupRows(rows, mode, k)
    IN [i \in 1..Len(g) |-> ParsedVals(g[i], cols)]

\* parse_csv_stats_aggregated: one row per Hostname
parse_csv_stats_aggregated(rows, cols) ==
    LET ks == GroupKeys(rows, "client")
    IN [i \in 1..Len(ks) |->
          [Hostname |-> ks[i], BaseHostname |-> <<>>, Role |-> <<>>,
           vals |-> AggregateVals(ParsedGroup(rows, "client", ks[i], cols))]]

\* parse_csv_stats_backend_aggregated: one row per Hostname-Roles
parse_csv_stats_backend_aggregated(rows, cols) ==
    LET ks == GroupKeys(rows, "backend")
    IN [i \in 1..Len(ks) |->
          LET g == GroupRows(rows, "backend", ks[i])
          IN [Hostname |-> ks[i], BaseHostname |-> g[1].Hostname,
              Role |-> g[1].Roles,
              vals |-> AggregateVals(ParsedGroup(rows, "backend", ks[i], cols))]]

\* get_weka_stats: {} on failure, else the aggregation for the mode
get_weka_stats(answer, mode, cols) ==
    IF ~answer.ok THEN <<>>
    ELSE IF mode = "backend" THEN parse_csv_stats_backend_aggregated(answer.rows, cols)
    ELSE parse_csv_stats_aggregated(answer.rows, cols)

\* parse_node_details_csv: every row of the answer, in order
parse_node_details_csv(rows, cols) ==
    [i \in 1..Len(rows) |->
        [node |-> i, hostname |-> rows[i].Hostname, role |-> rows[i].Roles,
         vals |-> ParsedVals(rows[i], cols)]]

\* the row filter of parse_backend_node_details_csv
BackendRowMatches(hostname, base_hostname) ==
    hostname = base_hostname \/ IsPrefix(base_hostname, hostname)

\* parse_backend_node_details_csv: the rows whose Hostname matches
parse_backend_node_details_csv(rows, base_hostname, cols) ==
    SelectSeq(parse_node_details_csv(rows, cols),
              LAMBDA n : BackendRowMatches(n.hostname, base_hostname))

\* get_host_node_details / get_backend_host_node_details
get_host_node_details(answer, cols) ==
    IF ~answer.ok THEN <<>> ELSE parse_node_details_csv(answer.rows, cols)

get_backend_host_node_details(answer, base_hostname, cols) ==
    IF ~answer.ok THEN <<>>
    ELSE parse_backend_node_details_csv(answer.rows, base_hostname, cols)

----------------------------------------------------------------------------
(* Group keys of the backend mode: hostname.split('-'). *)

HasDash(name) == DASH \in Range(name)

\* hostname.split('-', 1): the name is cut at its first "-"
FirstDash(name) == CHOOSE i \in 1..Len(name) :
                      name[i] = DASH /\ \A j \in 1..(i - 1) : name[j] # DASH

\* the index of the last "-" atom of a name that has one
LastDash(name) == CHOOSE i \in 1..Len(name) :
                     name[i] = DASH /\ \A j \in (i + 1)..Len(name) : name[j] # DASH

\* '-'.join(parts[:-1]) and parts[-1]
base_hostname_of(name) == SubSeq(name, 1, LastDash(name) - 1)
selected_role_of(name) == SubSeq(name, LastDash(name) + 1, Len(name))

----------------------------------------------------------------------------
(* calculate_node_totals: the totals row of the drill-down table, over     *)
(* self.node_details as fetched (the role filters are applied later, to    *)
(* the rows drawn under it).  The node rows' extra 'Write' and 'Read'      *)
(* columns are never displayed and are left out.                           *)

LatencyMetrics == {"Read Latency(us)", "Write Latency(us)"}

NodeVals(nodes) == [i \in 1..Len(nodes) |-> nodes[i].vals]

cpu_total_summed(vs) == SumVals(vs, "CPU%")

\* max(cpu_values)
RECURSIVE cpu_total(_)
cpu_total(vs) ==
    IF Len(vs) = 1 THEN vs[1]["CPU%"]
    ELSE Max(vs[1]["CPU%"], cpu_total(Tail(vs)))

\* {} without rows; else per key the sum, CPU% replaced by the maximum and
\* the two latencies divided by the number of rows
calculate_node_totals(nodes) ==
    IF nodes = <<>> THEN <<>>
    ELSE LET vs == NodeVals(nodes)
         IN [m \in CatalogSet |->
                IF m = "CPU%" THEN cpu_total(vs)
                ELSE IF m \in LatencyMetrics THEN SumVals(vs, m) \div Len(vs)
                ELSE SumVals(vs, m)]

----------------------------------------------------------------------------
(* Sorting: list.sort(key=..., reverse=...) is stable in both directions. *)

BeforeOrLevel(kx, ky, reverse) == IF reverse THEN kx >= ky ELSE kx =< ky

\* x goes before y, an element already placed, only when strictly better
Before(kx, ky, reverse) == IF reverse THEN kx > ky ELSE kx < ky

RECURSIVE InsertSorted(_, _, _, _)
InsertSorted(sorted, x, metric, reverse) ==
    IF sorted = <<>> THEN <<x>>
    ELSE LET last == sorted[Len(sorted)]
         IN IF Before(x.vals[metric], last.vals[metric], reverse)
            THEN Append(InsertSorted(SubSeq(sorted, 1, Len(sorted) - 1), x, metric, reverse), last)
            ELSE Append(sorted, x)

RECURSIVE SortRows(_, _, _)
SortRows(rows, metric, reverse) ==
    IF rows = <<>> THEN <<>>
    ELSE InsertSorted(SortRows(SubSeq(rows, 1, Len(rows) - 1), metric, reverse),
                      rows[Len(rows)], metric, reverse)

IsOrdered(rows, metric, reverse) ==
    \A i \in 1..(Len(rows) - 1) :
        IF reverse THEN rows[i].vals[metric] >= rows[i + 1].vals[metric]
        ELSE rows[i].vals[metric] <= rows[i + 1].vals[metric]

----------------------------------------------------------------------------
(* The command buffer: int(), and metric names as typed key by key. *)

\* int(text): [ok |-> FALSE] stands for ValueError
ParseInt(s) ==
    IF AllDigits(s) THEN [ok |-> TRUE, val |-> DigitsValue(s)]
    ELSE IF s # <<>> /\ s[1] \in {"+", "-"} /\ AllDigits(Tail(s))
         THEN [ok |-> TRUE,
               val |-> IF s[1] = "-" THEN 0 - DigitsValue(Tail(s)) ELSE DigitsValue(Tail(s))]
         ELSE [ok |-> FALSE, val |-> 0]

\* the keys that spell each metric name
Spelling ==
    [m \in CatalogSet |->
        CASE m = "CPU%" -> <<"C", "P", "U", "%">>
          [] m = "Ops/s" -> <<"O", "p", "s", "/", "s">>
          [] m = "Reads/s" -> <<"R", "e", "a", "d", "s", "/", "s">>
          [] m = "Writes/s" -> <<"W", "r", "i", "t", "e", "s", "/", "s">>
          [] m = "Read Latency(us)" ->
               <<"R", "e", "a", "d", " ", "L", "a", "t", "e", "n", "c", "y", "(", "u", "s", ")">>
          [] m = "Write Latency(us)" ->
               <<"W", "r", "i", "t", "e", " ", "L", "a", "t", "e", "n", "c", "y", "(", "u", "s", ")">>
          [] m = "L6 Recv" -> <<"L", "6", " ", "R", "e", "c", "v">>
          [] m = "L6 Sent" -> <<"L", "6", " ", "S", "e", "n", "t">>
          [] m = "OBS Upload" -> <<"O", "B", "S", " ", "U", "p", "l", "o", "a", "d">>
          [] m = "OBS Download" -> <<"O", "B", "S", " ", "D", "o", "w", "n", "l", "o", "a", "d">>
          [] m = "RDMA Recv" -> <<"R", "D", "M", "A", " ", "R", "e", "c", "v">>
          [] m = "RDMA Sent" -> <<"R", "D", "M", "A", " ", "S", "e", "n", "t">>]

\* the metrics of cols whose name is the typed text (at most one)
NamedMetrics(text, cols) == {m \in Range(cols) : Spelling[m] = text}

----------------------------------------------------------------------------
(* Column configuration. *)

\* get_unique_initial_metrics: the six defaults
DefaultMetrics == <<"CPU%", "Ops/s", "Reads/s", "Writes/s", "Read Latency(us)",
                    "Write Latency(us)">>

CatalogIndex(m) == CHOOSE i \in 1..Len(Catalog) : Catalog[i] = m

CycleAcceptsUsed(candidate, current_metric, used_metrics) ==
    candidate \in CatalogSet

\* the test of cycle_column's search loop on one candidate
CycleAccepts(candidate, current_metric, used_metrics) ==
    candidate \notin used_metrics \/ candidate = current_metric

\* cycle_column's search: the first accepted metric after the current one
\* in catalog order, wrapping round (offsets 1..len, the last one being
\* the current metric itself)
NextMetric(cols, metric_index) ==
    LET current_metric == cols[metric_index]
        n == Len(Catalog)
        cand(i) == Catalog[((CatalogIndex(current_metric) - 1 + i) % n) + 1]
        i0 == CHOOSE i \in 1..n :
                 /\ CycleAccepts(cand(i), current_metric, Range(cols))
                 /\ \A j \in 1..(i - 1) : ~CycleAccepts(cand(j), current_metric, Range(cols))
    IN cand(i0)

cycle_column_first(cols, column_index) ==
    IF column_index > Len(cols) \/ SelectSeq(Catalog, LAMBDA m : m \notin Range(cols)) = <<>>
    THEN cols
    ELSE [cols EXCEPT ![column_index] =
             SelectSeq(Catalog, LAMBDA m : m \notin Range(cols))[1]]

\* cycle_column(column_index): metric_columns afterwards
cycle_column(cols, column_index) ==
    IF column_index > Len(cols) THEN cols
    ELSE [cols EXCEPT ![column_index] = NextMetric(cols, column_index)]

\* add_column's available_metrics: catalog metrics not shown, in catalog order
AvailableMetrics(cols) == SelectSeq(Catalog, LAMBDA m : m \notin Range(cols))

\* add_column: metric_columns afterwards
add_column(cols) ==
    IF AvailableMetrics(cols) # <<>> THEN Append(cols, AvailableMetrics(cols)[1]) ELSE cols

\* remove_column: metric_columns afterwards
remove_column(cols) == IF Len(cols) > 0 THEN SubSeq(cols, 1, Len(cols) - 1) ELSE cols

----------------------------------------------------------------------------
(* State after construction. *)

Views == {"main", "node_details"}
Modes == {"client", "backend"}
RoleFilterKeys == {"DRIVES", "COMPUTE", "FRONTEND"}

colvars == <<metric_columns, main_view_metric_columns, drill_entry_columns, cycle_ops>>
inputvars == <<row_selection_mode, row_selection_input>>
sortvars == <<sort_column, sort_reverse, last_sort_command>>
pollvars == <<cluster_status, status_stale, refresh_rate>>
loopvars == <<pc, alarms>>
iovars == <<csv_rows, totals, cluster_status_text>>

adjusted_refresh_rate_kept(rate, stats_data) == rate

\* the refresh rate update_data leaves: with rows only a rate under 0.5 s
\* is raised to 0.5 s, without rows a rate over 0.5 s is cut to 0.5 s
adjusted_refresh_rate(rate, stats_data) ==
    IF stats_data # <<>> THEN (IF rate < 5 THEN 5 ELSE rate)
    ELSE (IF rate > 5 THEN 5 ELSE rate)

\* urwid.Text("Status: Initializing...")
InitialStatusText == [outcome |-> "initializing", words |-> <<>>, numbers |-> <<>>]

\* __init__: the defaults of everything but the rows, the cluster snapshot,
\* the refresh rate, the mode and the view
Defaults ==
    /\ metric_columns = DefaultMetrics
    /\ main_view_metric_columns = DefaultMetrics
    /\ selected_row = 0
    /\ row_selection_mode = FALSE
    /\ row_selection_input = <<>>
    /\ showing_help = FALSE
    /\ sort_column = ""
    /\ sort_reverse = FALSE
    /\ role_filters = [r \in RoleFilterKeys |-> TRUE]
    /\ running = TRUE
    /\ status_stale = FALSE
    /\ drill_entry_columns = DefaultMetrics
    /\ cycle_ops = 0
    /\ last_sort_command = <<>>
    /\ pc = "idle"
    /\ alarms = 1
    /\ totals = <<>>
    /\ cluster_status_text = InitialStatusText

\* __init__, then run() up to loop.run(): the defaults, one update_data()
\* in client mode with no sort key and the main view, the first alarm
InitWith(SA, RA) ==
    \E sa \in SA, ra \in RA :
        /\ hosts = get_weka_stats(ra, "client", DefaultMetrics)
        /\ cluster_status = (IF sa.ok THEN sa.data ELSE EmptyStatus)
        /\ refresh_rate = adjusted_refresh_rate(10, hosts)
        /\ current_mode = "client"
        /\ current_view = "main"
        /\ selected_host = <<>>
        /\ node_details = <<>>
        /\ calls = {"status", "stats"}
        /\ last_op = "init"
        /\ csv_rows = <<>>
        /\ Defaults

----------------------------------------------------------------------------
(* The poll cycle: update_data with get_weka_status, get_weka_stats and    *)
(* merge_data.  The except branch of update_data is not reachable from the *)
(* provider answers: both getters and the drill-down getters catch every   *)
(* exception themselves.                                                   *)

merge_ascending_toggled(current_sort_reverse) == current_sort_reverse

\* merge_data: the `ascending` argument it hands to sort_data
merge_ascending(current_sort_reverse) == ~current_sort_reverse

sort_data_reverse_flipped(ascending) == ascending

\* sort_data: self.sort_reverse = not ascending, also the reverse= it sorts with
sort_data_reverse(ascending) == ~ascending

\* get_weka_status: self.cluster_status is stored only on success
stored_status(sa, old) == IF sa.ok THEN sa.data ELSE old

\* the provider answers a drill-down query can get
DetailAnswers(mode, host, n) ==
    IF mode = "backend" /\ HasDash(host) THEN StatsAnswers(ProviderRoles, n)
    ELSE HostDetailAnswers(host, n)

\* the node rows of a drill-down query for group key `host`
fetch_node_details(da, mode, host, cols) ==
    IF mode = "backend" /\ HasDash(host)
    THEN get_backend_host_node_details(da, base_hostname_of(host), cols)
    ELSE get_host_node_details(da, cols)

NoAnswer == [ok |-> FALSE, rows |-> <<>>]

\* merge_data refreshes the drill-down rows only under this condition
merge_refetches(view, host) == view = "node_details" /\ host # <<>>

\* the drill-down answers update_data may see in the current state
PollDetailAnswers(mode, n) ==
    IF merge_refetches(current_view, selected_host)
    THEN DetailAnswers(mode, selected_host, n)
    ELSE {NoAnswer}

\* update_data() run in `mode` on the answers sa, ra, da
update_data(mode, sa, ra, da) ==
    LET stats_data == get_weka_stats(ra, mode, metric_columns)
        resort == sort_column # "" /\ stats_data # <<>>
        rev == sort_data_reverse(merge_ascending(sort_reverse))
        refetch == merge_refetches(current_view, selected_host)
        fetched == fetch_node_details(da, mode, selected_host, metric_columns)
        resorted_nodes == IF resort /\ current_view # "main" /\ node_details # <<>>
                          THEN SortRows(node_details, sort_column, rev)
                          ELSE node_details
    IN /\ cluster_status' = stored_status(sa, cluster_status)
       /\ status_stale' = (~sa.ok /\ cluster_status.present)
       /\ hosts' = IF resort /\ current_view = "main"
                   THEN SortRows(stats_data, sort_column, rev) ELSE stats_data
       /\ sort_column' = sort_column
       /\ sort_reverse' = (IF resort THEN rev ELSE sort_reverse)
       /\ last_sort_command' = last_sort_command
       /\ selected_row' = IF resort /\ (current_view = "main" \/ node_details # <<>>)
                          THEN 0 ELSE selected_row
       /\ node_details' =
            IF refetch
            THEN IF sort_column # "" /\ fetched # <<>>
                 THEN SortRows(fetched, sort_column, sort_reverse) ELSE fetched
            ELSE resorted_nodes
       /\ refresh_rate' = adjusted_refresh_rate(refresh_rate, stats_data)
       /\ calls' = {"status", "stats"} \cup (IF refetch THEN {"details"} ELSE {})

tick_updates_data_always(help_showing) == TRUE

\* update_data_and_display: `if self.showing_help` it only re-arms the alarm
\* ("Schedule next update without updating data")
tick_updates_data(help_showing) == ~help_showing

\* update_data_and_display: the scheduled refresh.
\* SA, RA and DA are the sets of answers the status, stats and drill-down
\* queries may give
TickOn(SA, RA, DA) ==
    /\ running
    /\ IF ~tick_updates_data(showing_help)
       THEN /\ last_op' = "tick_help"
            /\ calls' = {}
            /\ UNCHANGED <<hosts, node_details, selected_row, sortvars, pollvars>>
       ELSE /\ last_op' = "tick"
            /\ \E sa \in SA, ra \in RA, da \in DA :
                  update_data(current_mode, sa, ra, da)
    /\ UNCHANGED <<colvars, inputvars, current_mode, current_view, selected_host,
                   showing_help, role_filters, running>>
    /\ UNCHANGED <<loopvars, iovars>>

\* the same with drill-down answers of at most n rows
Tick(SA, RA, n) == TickOn(SA, RA, PollDetailAnswers(current_mode, n))

----------------------------------------------------------------------------
(* handle_input: one action per branch of the elif chain, in its order.    *)
(* Every branch before the last is taken whether or not help is showing.   *)

\* 'q': raise urwid.ExitMainLoop()
KeyQuit ==
    /\ running
    /\ running' = FALSE
    /\ last_op' = "quit" /\ calls' = {}
    /\ UNCHANGED <<hosts, colvars, inputvars, sortvars, pollvars, current_mode,
                   selected_row, current_view, selected_host, node_details,
                   showing_help, role_filters>>
    /\ UNCHANGED <<loopvars, iovars>>

\* 'h': show_help / return_from_help
KeyHelp ==
    /\ running
    /\ showing_help' = ~showing_help
    /\ last_op' = "help" /\ calls' = {}
    /\ UNCHANGED <<hosts, colvars, inputvars, sortvars, pollvars, current_mode,
                   selected_row, current_view, selected_host, node_details,
                   role_filters, running>>
    /\ UNCHANGED <<loopvars, iovars>>

OtherMode(mode) == IF mode = "client" THEN "backend" ELSE "client"

\* 'm' in the main view: the rows are cleared and update_data() runs at once
KeyModeMain(SA, RA) ==
    /\ running
    /\ current_view = "main"
    /\ current_mode' = OtherMode(current_mode)
    /\ \E sa \in SA, ra \in RA :
          update_data(OtherMode(current_mode), sa, ra, NoAnswer)
    /\ last_op' = "mode_main"
    /\ UNCHANGED <<colvars, inputvars, current_view, selected_host, showing_help,
                   role_filters, running>>
    /\ UNCHANGED <<loopvars, iovars>>

\* 'm' in the drill-down view: the view is kept, node_details is cleared
KeyModeDetails ==
    /\ running
    /\ current_view # "main"
    /\ current_mode' = OtherMode(current_mode)
    /\ node_details' = <<>>
    /\ selected_host' = <<>>
    /\ last_op' = "mode_details" /\ calls' = {}
    /\ UNCHANGED <<hosts, colvars, inputvars, sortvars, pollvars, selected_row,
                   current_view, showing_help, role_filters, running>>
    /\ UNCHANGED <<loopvars, iovars>>

\* 's': enter the command mode with the buffer "s"
KeySort ==
    /\ running
    /\ row_selection_mode' = TRUE
    /\ row_selection_input' = <<"s">>
    /\ last_op' = "sort_prompt" /\ calls' = {}
    /\ UNCHANGED <<hosts, colvars, sortvars, pollvars, current_mode, selected_row,
                   current_view, selected_host, node_details, showing_help,
                   role_filters, running>>
    /\ UNCHANGED <<loopvars, iovars>>

stepped_refresh_rate_unclamped(rate, key) == IF key = "+" THEN rate + 5 ELSE rate - 5

\* '+' / '-' outside the command mode: the refresh rate moves by 0.5 s
stepped_refresh_rate(rate, key) ==
    IF key = "+" THEN Min(rate + 5, 100) ELSE Max(rate - 5, 5)

SignKeys == {"+", "-"}

KeyRate(key) ==
    /\ running
    /\ ~row_selection_mode
    /\ refresh_rate' = stepped_refresh_rate(refresh_rate, key)
    /\ last_op' = "rate" /\ calls' = {}
    /\ UNCHANGED <<hosts, colvars, inputvars, sortvars, cluster_status, status_stale,
                   current_mode, selected_row, current_view, selected_host,
                   node_details, showing_help, role_filters, running>>
    /\ UNCHANGED <<loopvars, iovars>>

StartsWithS(text) == text # <<>> /\ text[1] = "s"

\* a key appended to the command buffer
AppendKey(key) ==
    /\ Len(row_selection_input) < MaxInput
    /\ row_selection_input' = Append(row_selection_input, key)
    /\ row_selection_mode' = row_selection_mode
    /\ last_op' = "append" /\ calls' = {}
    /\ UNCHANGED <<hosts, colvars, sortvars, pollvars, current_mode, selected_row,
                   current_view, selected_host, node_details, showing_help,
                   role_filters, running>>
    /\ UNCHANGED <<loopvars, iovars>>

\* '+' / '-' inside a sort command
KeySign(key) ==
    /\ running
    /\ row_selection_mode /\ StartsWithS(row_selection_input)
    /\ AppendKey(key)

\* 'a': add_column
KeyAdd ==
    /\ running
    /\ metric_columns' = add_column(metric_columns)
    /\ main_view_metric_columns' =
          IF current_view = "main" /\ AvailableMetrics(metric_columns) # <<>>
          THEN metric_columns' ELSE main_view_metric_columns
    /\ last_op' = "add" /\ calls' = {}
    /\ UNCHANGED <<hosts, inputvars, sortvars, pollvars, current_mode, selected_row,
                   current_view, selected_host, node_details, showing_help,
                   role_filters, running, drill_entry_columns, cycle_ops>>
    /\ UNCHANGED <<loopvars, iovars>>

\* 'r': remove_column
KeyRemove ==
    /\ running
    /\ metric_columns' = remove_column(metric_columns)
    /\ main_view_metric_columns' =
          IF current_view = "main" /\ Len(metric_columns) > 0
          THEN metric_columns' ELSE main_view_metric_columns
    /\ last_op' = "remove" /\ calls' = {}
    /\ UNCHANGED <<hosts, inputvars, sortvars, pollvars, current_mode, selected_row,
                   current_view, selected_host, node_details, showing_help,
                   role_filters, running, drill_entry_columns, cycle_ops>>
    /\ UNCHANGED <<loopvars, iovars>>

\* role_map of the role-filter branch
role_map(d) == IF d = 1 THEN "DRIVES" ELSE IF d = 2 THEN "COMPUTE" ELSE "FRONTEND"

toggled_all(filters, role) == [r \in DOMAIN filters |-> ~filters[r]]

\* self.role_filters[role] = not self.role_filters[role]
toggled_filter(filters, role) == [filters EXCEPT ![role] = ~@]

IsRoleFilterKey(d) ==
    d \in 1..3 /\ current_view = "node_details" /\ current_mode = "backend"

\* '1' '2' '3' in the backend drill-down: toggle one role filter and
\* redraw the table (update_node_details_display)
KeyRoleFilter(d) ==
    /\ running
    /\ IsRoleFilterKey(d)
    /\ role_filters' = toggled_filter(role_filters, role_map(d))
    /\ totals' = calculate_node_totals(node_details)
    /\ last_op' = "role_filter" /\ calls' = {}
    /\ UNCHANGED <<hosts, colvars, inputvars, sortvars, pollvars, current_mode,
                   selected_row, current_view, selected_host, node_details,
                   showing_help, running>>
    /\ UNCHANGED <<loopvars, csv_rows, cluster_status_text>>

\* ':': enter the command mode with an empty buffer
KeyColon ==
    /\ running
    /\ row_selection_mode' = TRUE
    /\ row_selection_input' = <<>>
    /\ last_op' = "colon" /\ calls' = {}
    /\ UNCHANGED <<hosts, colvars, sortvars, pollvars, current_mode, selected_row,
                   current_view, selected_host, node_details, showing_help,
                   role_filters, running>>
    /\ UNCHANGED <<loopvars, iovars>>

----------------------------------------------------------------------------
(* Commands, drill-down and return. *)

Invalid == [ok |-> FALSE, metric |-> "", ascending |-> TRUE]

\* process_sort_command: the metric and direction of s<+|-><number or name>
ParseSortCommand(text, cols) ==
    IF Len(text) < 2 \/ text[2] \notin SignKeys THEN Invalid
    ELSE LET column_input == SubSeq(text, 3, Len(text))
             num == ParseInt(column_input)
         IN IF num.ok
            THEN IF 1 <= num.val /\ num.val <= Len(cols)
                 THEN [ok |-> TRUE, metric |-> cols[num.val], ascending |-> text[2] = "+"]
                 ELSE Invalid
            ELSE IF NamedMetrics(column_input, cols) # {}
                 THEN [ok |-> TRUE,
                       metric |-> CHOOSE m \in NamedMetrics(column_input, cols) : TRUE,
                       ascending |-> text[2] = "+"]
                 ELSE Invalid

\* process_row_selection / the quick drill: the 0-based row a number names,
\* accepted when 0 <= row_num < len(self.hosts)
ParseRow(text) ==
    LET num == ParseInt(text)
    IN [ok |-> num.ok /\ 0 <= num.val - 1 /\ num.val - 1 < Len(hosts),
        row |-> num.val - 1]

\* sort_data(metric_name, ascending)
sort_data(metric_name, ascending) ==
    /\ sort_column' = metric_name
    /\ sort_reverse' = sort_data_reverse(ascending)
    /\ IF current_view = "main"
       THEN /\ hosts' = SortRows(hosts, metric_name, sort_data_reverse(ascending))
            /\ selected_row' = IF hosts # <<>> THEN 0 ELSE selected_row
            /\ UNCHANGED node_details
       ELSE /\ node_details' = SortRows(node_details, metric_name, sort_data_reverse(ascending))
            /\ selected_row' = IF node_details # <<>> THEN 0 ELSE selected_row
            /\ UNCHANGED hosts

\* Enter on a valid sort command
KeyEnterSort ==
    /\ running
    /\ row_selection_mode /\ StartsWithS(row_selection_input)
    /\ LET cmd == ParseSortCommand(row_selection_input, metric_columns)
       IN cmd.ok /\ sort_data(cmd.metric, cmd.ascending)
    /\ last_sort_command' = row_selection_input
    /\ row_selection_mode' = FALSE
    /\ row_selection_input' = <<>>
    /\ last_op' = (IF row_selection_input = last_sort_command THEN "sort_again" ELSE "sort")
    /\ calls' = {}
    /\ UNCHANGED <<colvars, pollvars, current_mode, current_view, selected_host,
                   showing_help, role_filters, running>>
    /\ UNCHANGED <<loopvars, iovars>>

\* Enter on a valid row number
KeyEnterRow ==
    /\ running
    /\ row_selection_mode /\ row_selection_input # <<>>
    /\ ~StartsWithS(row_selection_input)
    /\ ParseRow(row_selection_input).ok
    /\ selected_row' = ParseRow(row_selection_input).row
    /\ row_selection_mode' = FALSE
    /\ row_selection_input' = <<>>
    /\ last_op' = "row" /\ calls' = {}
    /\ UNCHANGED <<hosts, colvars, sortvars, pollvars, current_mode, current_view,
                   selected_host, node_details, showing_help, role_filters, running>>
    /\ UNCHANGED <<loopvars, iovars>>

\* Enter on a command that is not valid: the command mode is cancelled
KeyEnterCancel ==
    /\ running
    /\ row_selection_mode /\ row_selection_input # <<>>
    /\ IF StartsWithS(row_selection_input)
       THEN ~ParseSortCommand(row_selection_input, metric_columns).ok
       ELSE ~ParseRow(row_selection_input).ok
    /\ row_selection_mode' = FALSE
    /\ row_selection_input' = <<>>
    /\ last_op' = "cancel" /\ calls' = {}
    /\ UNCHANGED <<hosts, colvars, sortvars, pollvars, current_mode, selected_row,
                   current_view, selected_host, node_details, showing_help,
                   role_filters, running>>
    /\ UNCHANGED <<loopvars, iovars>>

\* Enter with an empty buffer (process_row_selection returns at once), or in
\* the main view with selected_row past the last row
KeyEnterIdle ==
    /\ running
    /\ \/ row_selection_mode /\ row_selection_input = <<>>
       \/ ~row_selection_mode /\ current_view = "main" /\ selected_row >= Len(hosts)
    /\ last_op' = "enter_idle" /\ calls' = {}
    /\ UNCHANGED <<hosts, colvars, inputvars, sortvars, pollvars, current_mode,
                   selected_row, current_view, selected_host, node_details,
                   showing_help, role_filters, running>>
    /\ UNCHANGED <<loopvars, iovars>>

\* host_list[self.selected_row]: a negative index counts from the end
PyIndex(s, i) == IF i >= 0 THEN s[i + 1] ELSE s[Len(s) + i + 1]

\* drill_down_to_host() with self.selected_row = row, on the answer da
drill_down_to_host(row, da) ==
    LET hostname == PyIndex(hosts, row).Hostname
    IN /\ selected_host' = hostname
       /\ main_view_metric_columns' = metric_columns
       /\ drill_entry_columns' =
             IF current_view = "main" THEN metric_columns ELSE drill_entry_columns
       /\ node_details' = fetch_node_details(da, current_mode, hostname, metric_columns)
       /\ current_view' = "node_details"
       /\ calls' = {"details"}

\* Enter in the main view with selected_row < len(self.hosts) and a row to
\* index; DA is the set of answers the drill-down query may get
KeyEnterDrillOn(DA) ==
    /\ running
    /\ ~row_selection_mode /\ current_view = "main"
    /\ selected_row < Len(hosts) /\ hosts # <<>>
    /\ \E da \in DA : drill_down_to_host(selected_row, da)
    /\ last_op' = "drill"
    /\ UNCHANGED <<hosts, metric_columns, cycle_ops, inputvars, sortvars, pollvars,
                   current_mode, selected_row, showing_help, role_filters, running>>
    /\ UNCHANGED <<loopvars, iovars>>

\* the same with answers of at most n rows
KeyEnterDrill(n) ==
    KeyEnterDrillOn(DetailAnswers(current_mode, PyIndex(hosts, selected_row).Hostname, n))

\* Enter in the main view with no rows and selected_row = -1: host_list[-1]
\* raises IndexError, which nothing in handle_input or run catches
KeyEnterCrash ==
    /\ running
    /\ ~row_selection_mode /\ current_view = "main"
    /\ selected_row < Len(hosts) /\ hosts = <<>>
    /\ running' = FALSE
    /\ last_op' = "crash" /\ calls' = {}
    /\ UNCHANGED <<hosts, colvars, inputvars, sortvars, pollvars, current_mode,
                   selected_row, current_view, selected_host, node_details,
                   showing_help, role_filters>>
    /\ UNCHANGED <<loopvars, iovars>>

kept_columns(snapshot, shown) == shown

\* self.metric_columns = self.main_view_metric_columns.copy()
restored_columns(snapshot, shown) == snapshot

\* return_to_main_view
return_to_main_view ==
    /\ current_view' = "main"
    /\ selected_host' = <<>>
    /\ node_details' = <<>>
    /\ selected_row' = 0
    /\ metric_columns' = restored_columns(main_view_metric_columns, metric_columns)
    /\ calls' = {}
    /\ UNCHANGED <<hosts, main_view_metric_columns, drill_entry_columns, cycle_ops,
                   inputvars, sortvars, pollvars, current_mode, showing_help,
                   role_filters, running>>
    /\ UNCHANGED <<loopvars, iovars>>

\* Enter in the drill-down view
KeyEnterReturn ==
    /\ running
    /\ ~row_selection_mode /\ current_view = "node_details"
    /\ return_to_main_view
    /\ last_op' = "enter_return"

\* Escape in the command mode
KeyEscapeCancel ==
    /\ running
    /\ row_selection_mode
    /\ row_selection_mode' = FALSE
    /\ row_selection_input' = <<>>
    /\ last_op' = "escape_cancel" /\ calls' = {}
    /\ UNCHANGED <<hosts, colvars, sortvars, pollvars, current_mode, selected_row,
                   current_view, selected_host, node_details, showing_help,
                   role_filters, running>>
    /\ UNCHANGED <<loopvars, iovars>>

\* Escape in the drill-down view
KeyEscapeReturn ==
    /\ running
    /\ ~row_selection_mode /\ current_view = "node_details"
    /\ return_to_main_view
    /\ last_op' = "escape_return"

\* the row count the arrow keys clamp against: len(self.hosts) in the main
\* view, len(self.node_details) in the drill-down view
ArrowRowCount == IF current_view = "main" THEN Len(hosts) ELSE Len(node_details)

\* the arrow keys
arrow_row(key, row, count) ==
    IF key = "up" THEN Max(0, row - 1) ELSE Min(count - 1, row + 1)

KeyArrow(key) ==
    /\ running
    /\ selected_row' = arrow_row(key, selected_row, ArrowRowCount)
    /\ last_op' = key /\ calls' = {}
    /\ UNCHANGED <<hosts, colvars, inputvars, sortvars, pollvars, current_mode,
                   current_view, selected_host, node_details, showing_help,
                   role_filters, running>>
    /\ UNCHANGED <<loopvars, iovars>>

\* Escape in the main view outside the command mode: nothing to do
KeyEscapeIdle ==
    /\ running
    /\ ~row_selection_mode /\ current_view = "main"
    /\ last_op' = "escape_idle" /\ calls' = {}
    /\ UNCHANGED <<hosts, colvars, inputvars, sortvars, pollvars, current_mode,
                   selected_row, current_view, selected_host, node_details,
                   showing_help, role_filters, running>>
    /\ UNCHANGED <<loopvars, iovars>>

\* the digit keys the user presses
DigitKeys == 1..MaxDigit

\* a digit in the command mode (the role-filter branch comes first)
KeyDigitAppend(d) ==
    /\ running
    /\ ~IsRoleFilterKey(d)
    /\ row_selection_mode
    /\ AppendKey(Digits[d + 1])

\* the 'd' of the quick drill <n>d on a valid row number
KeyQuickDrill(n) ==
    /\ running
    /\ row_selection_mode /\ row_selection_input # <<>>
    /\ ParseRow(row_selection_input).ok
    /\ selected_row' = ParseRow(row_selection_input).row
    /\ row_selection_mode' = FALSE
    /\ row_selection_input' = <<>>
    /\ \E da \in DetailAnswers(current_mode,
                               PyIndex(hosts, ParseRow(row_selection_input).row).Hostname, n) :
          drill_down_to_host(ParseRow(row_selection_input).row, da)
    /\ last_op' = "quick_drill"
    /\ UNCHANGED <<hosts, metric_columns, cycle_ops, sortvars, pollvars, current_mode,
                   showing_help, role_filters, running>>
    /\ UNCHANGED <<loopvars, iovars>>

\* 'd' after a buffer that names no row: the key is dropped
KeyQuickDrillRejected ==
    /\ running
    /\ row_selection_mode /\ row_selection_input # <<>>
    /\ ~ParseRow(row_selection_input).ok
    /\ last_op' = "quick_drill_rejected" /\ calls' = {}
    /\ UNCHANGED <<hosts, colvars, inputvars, sortvars, pollvars, current_mode,
                   selected_row, current_view, selected_host, node_details,
                   showing_help, role_filters, running>>
    /\ UNCHANGED <<loopvars, iovars>>

\* 'backspace' in the command mode
KeyBackspace ==
    /\ running
    /\ row_selection_mode
    /\ row_selection_input' =
          IF row_selection_input # <<>>
          THEN SubSeq(row_selection_input, 1, Len(row_selection_input) - 1)
          ELSE row_selection_input
    /\ UNCHANGED row_selection_mode
    /\ last_op' = "backspace" /\ calls' = {}
    /\ UNCHANGED <<hosts, colvars, sortvars, pollvars, current_mode, selected_row,
                   current_view, selected_host, node_details, showing_help,
                   role_filters, running>>
    /\ UNCHANGED <<loopvars, iovars>>

\* letter keys with no branch of their own ('q' 'h' 'm' 's' 'a' 'r' have one)
LetterKeys == {"d", "x"}

\* the special characters of the column names
SpecialKeys == {"%"}

\* a letter in the command mode; 'd' gets here only with an empty buffer
KeyLetter(key) ==
    /\ running
    /\ row_selection_mode
    /\ key = "d" => row_selection_input = <<>>
    /\ AppendKey(key)

\* '%' '/' '(' ')' in the command mode
KeySpecial(key) ==
    /\ running
    /\ row_selection_mode
    /\ AppendKey(key)

\* a digit outside the command mode, help not showing: cycle_column
KeyCycle(d) ==
    /\ running
    /\ ~IsRoleFilterKey(d)
    /\ ~row_selection_mode /\ ~showing_help
    /\ cycle_ops < MaxCycles
    /\ cycle_ops' = cycle_ops + 1
    /\ metric_columns' = cycle_column(metric_columns, d)
    /\ last_op' = "cycle" /\ calls' = {}
    /\ UNCHANGED <<hosts, main_view_metric_columns, drill_entry_columns, inputvars,
                   sortvars, pollvars, current_mode, selected_row, current_view,
                   selected_host, node_details, showing_help, role_filters, running>>
    /\ UNCHANGED <<loopvars, iovars>>

\* the keys that match no earlier branch in the current state and so reach
\* the last one, `elif self.showing_help: self.return_from_help()`
FallsThrough(key) ==
    \/ key \in SignKeys /\ row_selection_mode /\ ~StartsWithS(row_selection_input)
    \/ key \in {Digits[d + 1] : d \in DigitKeys} /\ ~row_selection_mode /\ showing_help
         /\ ~IsRoleFilterKey(DigitValue(key))
    \/ key \in LetterKeys \cup SpecialKeys \cup {"backspace"} /\ ~row_selection_mode
    \/ key = " "

FallThroughKeys ==
    SignKeys \cup {Digits[d + 1] : d \in DigitKeys} \cup LetterKeys \cup SpecialKeys
        \cup {"backspace", " "}

\* the last branch: help showing is dismissed, otherwise nothing happens
KeyFallThrough(key) ==
    /\ running
    /\ FallsThrough(key)
    /\ showing_help' = FALSE
    /\ last_op' = "fall_through" /\ calls' = {}
    /\ UNCHANGED <<hosts, colvars, inputvars, sortvars, pollvars, current_mode,
                   selected_row, current_view, selected_host, node_details,
                   role_filters, running>>
    /\ UNCHANGED <<loopvars, iovars>>

----------------------------------------------------------------------------
(* Sorting under polls: the main view and the client drill-down, with the  *)
(* default columns.  Every host runs one process, the cluster status is    *)
(* steady, the user types whole sort commands on the column whose values   *)
(* vary, in the main view, and the alarm fires between commands.  While    *)
(* drilled down the host-level query reports the drilled host alone and    *)
(* idle.                                                                   *)

StatusSteady == {[ok |-> TRUE, data |-> [present |-> TRUE, status |-> "OK"]]}

OneProcessPerHost(a) ==
    \A i, j \in 1..Len(a.rows) : a.rows[i].Hostname = a.rows[j].Hostname => i = j

ClientStats == {a \in StatsAnswers(ModeRoles("client"), MaxRaw) : OneProcessPerHost(a)}

\* an answer with the one host h, idle
IdleStats(h) ==
    [ok |-> TRUE, rows |-> <<[Hostname |-> h, Roles |-> <<>>, vals |-> ZeroVals]>>]

HeldStats == {IdleStats(selected_host)}

SortStats == IF current_view = "main" THEN ClientStats ELSE HeldStats

\* the slot of the default columns that shows the varied metric
VariedSlot == CHOOSE d \in 1..Len(DefaultMetrics) : DefaultMetrics[d] \in VariedMetrics

SortCommands == {<<"s", sg, Digits[VariedSlot + 1]>> : sg \in SignKeys}

\* key k continues one of the commands the user means to type
Typing(k, commands) == \E c \in commands : IsPrefix(Append(row_selection_input, k), c)

NextSort ==
    \/ ~row_selection_mode /\ Tick(StatusSteady, SortStats, MaxRaw)
    \/ ~row_selection_mode /\ current_view = "main" /\ KeySort
    \/ \E k \in SignKeys : Typing(k, SortCommands) /\ KeySign(k)
    \/ \E d \in DigitKeys : Typing(Digits[d + 1], SortCommands) /\ KeyDigitAppend(d)
    \/ KeyEnterSort
    \/ KeyEnterDrill(MaxRaw)
    \/ KeyEscapeReturn

SpecSort == InitWith(StatusSteady, ClientStats) /\ [][NextSort]_vars

\* the rows of the view on screen
ViewRows == IF current_view = "main" THEN hosts ELSE node_details

\* C1: a poll cycle that returns host rows while a sort key is active leaves
\* the rows of the current view ordered by that key in the stored direction
\* and changes neither the key nor the direction
C1_PollKeepsSort ==
    [][(last_op' = "tick" /\ sort_column # "" /\ hosts' # <<>>) =>
          /\ sort_column' = sort_column
          /\ sort_reverse' = sort_reverse
          /\ IsOrdered(ViewRows', sort_column, sort_reverse)]_vars

\* a poll has just re-sorted two unequal host rows in descending order
C1_Witness ==
    /\ last_op = "tick" /\ current_view = "main"
    /\ sort_column # "" /\ sort_reverse
    /\ Len(hosts) = 2
    /\ hosts[1].vals[sort_column] > hosts[2].vals[sort_column]

\* C2 as stated: a sort command submitted again flips the direction
C2_RepeatFlips ==
    [][last_op' = "sort_again" => sort_reverse' # sort_reverse]_vars

\* C2: a sort command submitted again sorts as it did the first time: the
\* direction is the command's sign ('+' ascending, '-' descending), it does
\* not flip, and the rows of the view are in that order
C2_RepeatKeepsDirection ==
    [][last_op' = "sort_again" =>
          /\ sort_reverse' = (last_sort_command'[2] = "-")
          /\ sort_reverse' = sort_reverse
          /\ IsOrdered(ViewRows', sort_column', sort_reverse')]_vars

\* s+<slot> was submitted twice and two unequal host rows are ascending
C2_Witness ==
    /\ last_op = "sort_again" /\ current_view = "main"
    /\ last_sort_command[2] = "+" /\ ~sort_reverse
    /\ Len(hosts) = 2
    /\ hosts[1].vals[sort_column] < hosts[2].vals[sort_column]

----------------------------------------------------------------------------
(* The column configuration: add and remove in both views, cycle in the    *)
(* main view, the drill-down by Enter and by the quick drill, the return   *)
(* and the mode key in the drill-down.  One idle host is on screen, no     *)
(* alarm fires and drill-down answers carry no rows.  The user removes     *)
(* only columns beyond the six defaults and cycles a column while six      *)
(* columns or the whole catalog are shown.                                 *)

OneIdleHost == {IdleStats(CHOOSE h \in HostNames : TRUE)}

\* the quick drill on row 1
RowCommands == {<<Digits[2]>>}

CyclingView ==
    current_view = "main" /\ Len(metric_columns) \in {Len(DefaultMetrics), Len(Catalog)}

NextColumns ==
    \/ KeyAdd
    \/ Len(metric_columns) > Len(DefaultMetrics) /\ KeyRemove
    \/ \E d \in DigitKeys : CyclingView /\ KeyCycle(d)
    \/ KeyEnterDrill(0)
    \/ ~row_selection_mode /\ KeyColon
    \/ \E d \in DigitKeys : Typing(Digits[d + 1], RowCommands) /\ KeyDigitAppend(d)
    \/ KeyQuickDrill(0)
    \/ KeyEscapeReturn
    \/ KeyModeDetails

SpecColumns == InitWith(StatusSteady, OneIdleHost) /\ [][NextColumns]_vars

NoDuplicate(cols) == \A i, j \in 1..Len(cols) : cols[i] = cols[j] => i = j

\* C3 as stated: whatever keys are pressed between entering the drill-down
\* from the main view and returning, the columns after the return are the
\* columns that were active when the drill-down was entered
C3_ReturnRestoresEntryColumns ==
    [][(current_view = "node_details" /\ current_view' = "main") =>
          metric_columns' = drill_entry_columns]_vars

\* C5 as stated: the column sequence never holds more than 9 metrics
C5_AtMostNineColumns == Len(metric_columns) <= 9

\* C6: the column sequence never holds the same metric twice
C6_NoDuplicateColumn == NoDuplicate(metric_columns)

\* a column was cycled while every metric before the next unused one in
\* catalog order was in use, and a column was added afterwards
C6_Witness ==
    /\ cycle_ops > 0
    /\ last_op = "add"
    /\ Len(metric_columns) > Len(DefaultMetrics)
    /\ \E i \in 1..Len(DefaultMetrics) : metric_columns[i] # DefaultMetrics[i]

----------------------------------------------------------------------------
(* Polls, navigation and the drill-down: either provider may fail, the     *)
(* hosts are idle and run one process each, and the user drills down in    *)
(* client mode.                                                            *)

\* the answers that report idle hosts, one process each
IdleAnswers(mode) ==
    {a \in StatsAnswers(ModeRoles(mode), MaxRaw) :
        OneProcessPerHost(a) /\ \A i \in 1..Len(a.rows) : a.rows[i].vals = ZeroVals}

\* the row numbers the user types
JumpCommands == {<<Digits[d + 1]>> : d \in DigitKeys}

NextPoll ==
    \/ ~row_selection_mode /\ Tick(StatusAnswers, IdleAnswers(current_mode), MaxRaw)
    \/ \E key \in {"up", "down"} : ~row_selection_mode /\ KeyArrow(key)
    \/ current_mode = "client" /\ KeyEnterDrill(MaxRaw)
    \/ KeyEnterCrash
    \/ KeyModeDetails
    \/ KeyEscapeReturn
    \/ ~row_selection_mode /\ KeyColon
    \/ \E d \in DigitKeys : Typing(Digits[d + 1], JumpCommands) /\ KeyDigitAppend(d)
    \/ KeyEnterRow
    \/ KeyEnterCancel

SpecPoll == InitWith(StatusAnswers, IdleAnswers("client")) /\ [][NextPoll]_vars

\* the selectable rows of the view on screen
RowCount == Len(ViewRows)

\* C4 as stated: selected_row is never negative and, when the view has
\* rows, never past the last one
C4_SelectedRowInRange ==
    /\ selected_row >= 0
    /\ RowCount > 0 => selected_row <= RowCount - 1

\* C7 as stated: the poll cycle that follows a mode toggle in the
\* drill-down view fetches the drill-down rows again
C7_PollRefetchesAfterModeToggle ==
    [][(last_op = "mode_details" /\ last_op' = "tick") => "details" \in calls']_vars

\* C10 as stated: after a poll cycle the stored cluster snapshot is never
\* one held over from an earlier cycle
C10_SnapshotFromSameCycle == ~status_stale

----------------------------------------------------------------------------
(* The help overlay: the help key, keys pressed while it shows, and the    *)
(* alarm.  The hosts are idle and run one process each.                    *)

NextHelp ==
    \/ Tick(StatusSteady, IdleAnswers(current_mode), 0)
    \/ KeyHelp
    \/ KeyAdd
    \/ KeyModeMain(StatusSteady, IdleAnswers(OtherMode(current_mode)))
    \/ \E key \in FallThroughKeys : KeyFallThrough(key)

SpecHelp == InitWith(StatusSteady, IdleAnswers("client")) /\ [][NextHelp]_vars

\* the two outcomes of the alarm
TickOps == {"tick", "tick_help"}

\* C8 as stated: a key pressed while help shows dismisses it and changes
\* nothing else, and runs no provider command
C8_KeyOnlyDismissesHelp ==
    [][(showing_help /\ last_op' \notin TickOps) =>
          /\ ~showing_help'
          /\ UNCHANGED <<current_view, current_mode, metric_columns, refresh_rate,
                         selected_row, row_selection_mode>>
          /\ calls' = {}]_vars

----------------------------------------------------------------------------
(* run() and update_data_and_display step by step: the alarm fires, the    *)
(* poll runs, the display is redrawn, the next alarm is armed.  SIGINT is  *)
(* handled by handle_sigint, which raises urwid.ExitMainLoop (a subclass   *)
(* of Exception) in whatever frame the main thread is executing.           *)

\* the most alarms the model lets pile up
MaxAlarms == 2

datavars == <<hosts, node_details, selected_row, sortvars, pollvars>>
viewvars == <<colvars, inputvars, current_mode, current_view, selected_host,
              showing_help, role_filters, iovars>>

\* update_data's except branch: min(self.refresh_rate + 0.5, 3.0)
backed_off_refresh_rate(rate) == Min(rate + 5, 30)

\* get_weka_status returning {}: non-zero exit, timeout or exception
FailedStatus == [ok |-> FALSE, data |-> EmptyStatus]

\* the main loop removes the due alarm and calls update_data_and_display,
\* which tests showing_help first
AlarmFires ==
    /\ running /\ pc = "idle" /\ alarms > 0
    /\ alarms' = alarms - 1
    /\ pc' = IF tick_updates_data(showing_help) THEN "poll" ELSE "schedule"
    /\ last_op' = "alarm" /\ calls' = {}
    /\ UNCHANGED <<datavars, viewvars, running>>

\* whether a provider call of the cycle came back empty-handed
poll_outcome(sa, ra) == IF sa.ok /\ ra.ok THEN "poll" ELSE "poll_failed"

\* self.update_data() inside the callback, undisturbed
PollCycle(SA, RA, n) ==
    /\ running /\ pc = "poll"
    /\ \E sa \in SA, ra \in RA, da \in PollDetailAnswers(current_mode, n) :
          /\ update_data(current_mode, sa, ra, da)
          /\ last_op' = poll_outcome(sa, ra)
    /\ pc' = "display"
    /\ UNCHANGED <<alarms, viewvars, running>>

\* SIGINT while subprocess.run blocks in get_weka_status or get_weka_stats:
\* the getter's `except Exception` catches ExitMainLoop and returns {}, and
\* update_data carries on with the empty answer
SigintInProvider(SA, RA, n) ==
    /\ running /\ pc = "poll"
    /\ \E sa \in SA, ra \in RA, da \in PollDetailAnswers(current_mode, n) :
          \/ /\ update_data(current_mode, FailedStatus, ra, da)
             /\ last_op' = "sigint_status"
          \/ /\ update_data(current_mode, sa, NoAnswer, da)
             /\ last_op' = "sigint_stats"
    /\ pc' = "display"
    /\ UNCHANGED <<alarms, viewvars, running>>

\* SIGINT inside merge_data, before or after self.hosts is assigned:
\* update_data's `except Exception` catches ExitMainLoop and backs off
SigintInMerge(SA, RA) ==
    /\ running /\ pc = "poll"
    /\ \E sa \in SA, ra \in RA, assigned \in BOOLEAN :
          /\ cluster_status' = stored_status(sa, cluster_status)
          /\ status_stale' = (~sa.ok /\ cluster_status.present)
          /\ hosts' = IF assigned THEN get_weka_stats(ra, current_mode, metric_columns)
                      ELSE hosts
    /\ refresh_rate' = backed_off_refresh_rate(refresh_rate)
    /\ calls' = {"status", "stats"}
    /\ last_op' = "sigint_merge"
    /\ pc' = "display"
    /\ UNCHANGED <<node_details, selected_row, sortvars, alarms, viewvars, running>>

\* update_display() / update_node_details_display() inside the callback
DisplayDone ==
    /\ running /\ pc = "display"
    /\ pc' = "schedule"
    /\ last_op' = "display" /\ calls' = {}
    /\ UNCHANGED <<alarms, datavars, viewvars, running>>

\* self.schedule_next_update(loop): loop.set_alarm_in(self.refresh_rate, ...)
ScheduleNext ==
    /\ running /\ pc = "schedule"
    /\ alarms' = alarms + 1
    /\ pc' = "armed"
    /\ last_op' = "schedule" /\ calls' = {}
    /\ UNCHANGED <<datavars, viewvars, running>>

\* the callback leaves its try block and returns to the main loop
CallbackReturns ==
    /\ running /\ pc = "armed"
    /\ pc' = "idle"
    /\ last_op' = "return" /\ calls' = {}
    /\ UNCHANGED <<alarms, datavars, viewvars, running>>

\* SIGINT inside the callback's try block outside update_data: the
\* callback's `except Exception` catches ExitMainLoop and arms an alarm in
\* 2 s, also when schedule_next_update has armed one already
SigintInCallback ==
    /\ running /\ pc \in {"display", "schedule", "armed"}
    /\ alarms < MaxAlarms
    /\ alarms' = alarms + 1
    /\ pc' = "idle"
    /\ last_op' = (IF pc = "armed" THEN "sigint_armed" ELSE "sigint_display")
    /\ calls' = {}
    /\ UNCHANGED <<datavars, viewvars, running>>

\* SIGINT while the main loop waits for input: ExitMainLoop reaches
\* loop.run(), which returns
SigintIdle ==
    /\ running /\ pc = "idle"
    /\ running' = FALSE
    /\ last_op' = "sigint_idle" /\ calls' = {}
    /\ UNCHANGED <<loopvars, datavars, viewvars>>

\* the status provider answers or fails
LoopStatus == {FailedStatus} \cup StatusSteady

NextLoop ==
    \/ AlarmFires
    \/ PollCycle(LoopStatus, IdleAnswers(current_mode), 0)
    \/ SigintInProvider(StatusSteady, IdleAnswers(current_mode), 0)
    \/ SigintInMerge(StatusSteady, IdleAnswers(current_mode))
    \/ DisplayDone
    \/ ScheduleNext
    \/ CallbackReturns
    \/ SigintInCallback
    \/ SigintIdle
    \/ \E key \in SignKeys : pc = "idle" /\ KeyRate(key)
    \/ pc = "idle" /\ KeyHelp
    \/ pc = "idle" /\ KeyModeMain(StatusSteady, IdleAnswers(OtherMode(current_mode)))
    \/ pc = "idle" /\ KeyQuit

SpecLoop == InitWith(LoopStatus, IdleAnswers("client")) /\ [][NextLoop]_vars

\* C11 as stated: whenever the program is running and no refresh callback
\* is executing, exactly one refresh is pending: never zero, never two
C11_ExactlyOnePending == (running /\ pc = "idle") => alarms = 1

SigintOps == {"sigint_status", "sigint_stats", "sigint_merge", "sigint_display",
              "sigint_armed", "sigint_idle"}

\* C12 as stated: an interrupt signal delivered at any point, also inside
\* a provider call or the merge step of a poll, ends the main loop at once
C12_SigintTerminates == [][last_op' \in SigintOps => ~running']_vars

\* C13: the refresh interval is always a multiple of 0.5 s within
\* [0.5 s, 10.0 s], whatever '+', '-', polls with rows, polls without rows
\* and polls on the exception path have done to it
C13_RateOnHalfSecondGrid ==
    /\ refresh_rate % 5 = 0
    /\ 5 <= refresh_rate /\ refresh_rate <= 100

\* a poll has taken the exception path and left the interval at 3.0 s
C13_Witness == last_op = "sigint_merge" /\ refresh_rate = 30 /\ pc = "display"

\* the poll cycles that reach update_data's rate adjustment
AdjustingPolls == {"poll", "poll_failed", "sigint_status", "sigint_stats"}

C15_FailureNeverShortens ==
    [][last_op' = "poll_failed" => refresh_rate' >= refresh_rate]_vars

----------------------------------------------------------------------------
(* The aggregation on its own: CSV data rows in, summary rows out.         *)

\* the most data rows of a CSV text under aggregation
MaxCsv == MaxRaw + 1

\* the raw values of one CSV row: _to_float returns float(value), which is
\* negative for a text like "-1"; every column of a row carries the same
\* number
SignedVals == {[m \in CatalogSet |-> v] : v \in (0 - MaxVal)..MaxVal}

\* the CSV texts of `weka stats realtime` handed to the aggregation
CsvTexts(mode) ==
    BoundedSeq([Hostname : HostNames, Roles : ModeRoles(mode), vals : SignedVals], MaxCsv)

\* get_weka_stats in `mode` is about to parse the provider's output
InitAggregate ==
    \E mode \in Modes : \E text \in CsvTexts(mode) :
        /\ csv_rows = text
        /\ current_mode = mode
        /\ hosts = <<>>
        /\ current_view = "main"
        /\ selected_host = <<>>
        /\ node_details = <<>>
        /\ cluster_status = EmptyStatus
        /\ refresh_rate = 10
        /\ calls = {}
        /\ last_op = "init"
        /\ Defaults

\* get_weka_stats, returncode 0: the aggregation for the current mode
ParseStats ==
    /\ last_op # "parse"
    /\ hosts' = get_weka_stats([ok |-> TRUE, rows |-> csv_rows], current_mode,
                               metric_columns)
    /\ last_op' = "parse" /\ calls' = {"stats"}
    /\ UNCHANGED <<node_details, selected_row, sortvars, pollvars, loopvars,
                   viewvars, running>>

\* the columns shown can differ from the defaults when the text is parsed
NextAggregate ==
    \/ ParseStats
    \/ last_op = "init" /\ Len(metric_columns) = Len(DefaultMetrics) /\ KeyAdd

SpecAggregate == InitAggregate /\ [][NextAggregate]_vars

\* the group keys present in the CSV rows
RowKeys == {GroupKeyOf(csv_rows[i], current_mode) : i \in 1..Len(csv_rows)}

\* the CSV rows of group key k
KeyRows(k) == {i \in 1..Len(csv_rows) : GroupKeyOf(csv_rows[i], current_mode) = k}

\* the sum of the raw values of metric m over the CSV rows I, as the
\* provider printed them (a column that was not requested is absent)
RECURSIVE RawSum(_, _)
RawSum(I, m) ==
    IF I = {} \/ m \notin Range(metric_columns) THEN 0
    ELSE LET i == CHOOSE j \in I : TRUE
         IN csv_rows[i].vals[m] + RawSum(I \ {i}, m)

\* C16: the aggregation yields exactly one summary row per group key
\* present in the raw rows (host in client mode, host-role in backend
\* mode), none for an absent key, and every row carries all 12 catalog
\* metrics, 0.0 for a metric the raw rows lack
C16_OneRowPerGroupKey ==
    last_op = "parse" =>
        /\ {hosts[i].Hostname : i \in 1..Len(hosts)} = RowKeys
        /\ \A i, j \in 1..Len(hosts) : hosts[i].Hostname = hosts[j].Hostname => i = j
        /\ \A i \in 1..Len(hosts) :
              /\ DOMAIN hosts[i].vals = CatalogSet
              /\ \A m \in CatalogSet \ Range(metric_columns) : hosts[i].vals[m] = 0

\* three rows in two groups have been aggregated into two summary rows
C16_Witness ==
    /\ last_op = "parse" /\ Len(csv_rows) = 3 /\ Len(hosts) = 2
    /\ \E k \in RowKeys : Cardinality(KeyRows(k)) = 2

\* C17 as stated: every averaged metric of every summary row is the sum
\* of the group's raw values divided by the number of rows of the group,
\* for zero, positive and negative raw values
C17_AverageIsMean ==
    last_op = "parse" =>
        \A i \in 1..Len(hosts) : \A m \in AveragedMetrics :
            hosts[i].vals[m] * Cardinality(KeyRows(hosts[i].Hostname))
                = Scale * RawSum(KeyRows(hosts[i].Hostname), m)

\* C18: every summed metric of every summary row is the arithmetic sum of
\* the raw values of the rows of that row's group and of no other row
C18_SumOverOwnGroup ==
    last_op = "parse" =>
        \A i \in 1..Len(hosts) : \A m \in SummedMetrics :
            hosts[i].vals[m] = Scale * RawSum(KeyRows(hosts[i].Hostname), m)

\* a group of two rows with a non-zero sum next to another group with
\* non-zero values
C18_Witness ==
    /\ last_op = "parse" /\ Len(hosts) = 2
    /\ \E i, j \in 1..Len(hosts) :
          /\ Cardinality(KeyRows(hosts[i].Hostname)) = 2
          /\ hosts[i].vals["Ops/s"] = 2 * Scale
          /\ hosts[j].vals["Ops/s"] # 0 /\ i # j

----------------------------------------------------------------------------
(* The totals row on its own: drill-down rows in, totals out.              *)

\* the group key drilled into
DrilledHost(mode) ==
    LET h == CHOOSE x \in HostNames : TRUE
        r == CHOOSE x \in ProviderRoles : TRUE
    IN IF mode = "backend" THEN host_key(h, r) ELSE h

\* the CSV texts the drill-down query can answer with: the rows of the
\* host asked for in client mode, rows of every backend process in
\* backend mode
NodeTexts(mode) ==
    IF mode = "backend" THEN CsvTexts(mode)
    ELSE BoundedSeq([Hostname : {DrilledHost(mode)}, Roles : {<<>>}, vals : SignedVals],
                    MaxCsv)

\* drill_down_to_host has fetched the rows and is about to draw them
InitTotals ==
    \E mode \in Modes : \E text \in NodeTexts(mode) :
        /\ current_mode = mode
        /\ current_view = "node_details"
        /\ selected_host = DrilledHost(mode)
        /\ node_details = fetch_node_details([ok |-> TRUE, rows |-> text], mode,
                                             selected_host, DefaultMetrics)
        /\ hosts = <<>>
        /\ csv_rows = text
        /\ cluster_status = EmptyStatus
        /\ refresh_rate = 10
        /\ calls = {"details"}
        /\ last_op = "init"
        /\ Defaults

\* update_node_details_display: the totals row is computed first
ShowNodeDetails ==
    /\ last_op = "init"
    /\ totals' = calculate_node_totals(node_details)
    /\ last_op' = "show" /\ calls' = {}
    /\ UNCHANGED <<datavars, loopvars, colvars, inputvars, current_mode, current_view,
                   selected_host, showing_help, role_filters, csv_rows, running,
                   cluster_status_text>>

NextTotals ==
    \/ ShowNodeDetails
    \/ \E d \in 1..3 : last_op \in {"show", "role_filter"} /\ KeyRoleFilter(d)
    \/ \E d \in 1..3 : last_op = "show" /\ KeyCycle(d)

SpecTotals == InitTotals /\ [][NextTotals]_vars

\* the sum of metric m over the drill-down rows I
RECURSIVE NodeSum(_, _)
NodeSum(I, m) ==
    IF I = {} THEN 0
    ELSE LET i == CHOOSE j \in I : TRUE
         IN node_details[i].vals[m] + NodeSum(I \ {i}, m)

AllNodes == 1..Len(node_details)

\* the drill-down table has been drawn
TotalsDrawn == last_op \in {"show", "role_filter"} /\ node_details # <<>>

\* C19: for a non-empty drill-down row list the totals row has the
\* maximum CPU% of the rows, the mean of each latency and the sum of every
\* other metric, over all fetched rows whatever the role filters hide
C19_TotalsOverAllRows ==
    TotalsDrawn =>
        /\ \E i \in AllNodes : totals["CPU%"] = node_details[i].vals["CPU%"]
        /\ \A i \in AllNodes : totals["CPU%"] >= node_details[i].vals["CPU%"]
        /\ \A m \in LatencyMetrics : totals[m] * Len(node_details) = NodeSum(AllNodes, m)
        /\ \A m \in CatalogSet \ (LatencyMetrics \cup {"CPU%"}) :
              totals[m] = NodeSum(AllNodes, m)

\* a role filter hides a row with non-zero values that the totals count,
\* and the rows differ in CPU%
C19_Witness ==
    /\ last_op = "role_filter" /\ Len(node_details) >= 2
    /\ \E i, j \in AllNodes :
          /\ ~role_filters[node_details[i].role[1]]
          /\ node_details[i].vals["Ops/s"] > 0
          /\ node_details[j].vals["CPU%"] < node_details[i].vals["CPU%"]
    /\ totals["Ops/s"] = NodeSum(AllNodes, "Ops/s")

----------------------------------------------------------------------------
(* The command mode: commands typed key by key and ended with Enter.       *)

\* the stats provider reports two idle hosts
TwoIdleHosts == {a \in IdleAnswers("client") : Len(a.rows) = 2}

NextCommand ==
    \/ ~row_selection_mode /\ KeyColon
    \/ ~row_selection_mode /\ KeySort
    \/ \E key \in SignKeys : KeySign(key)
    \/ \E d \in DigitKeys : KeyDigitAppend(d)
    \/ \E key \in LetterKeys : KeyLetter(key)
    \/ \E key \in SpecialKeys : KeySpecial(key)
    \/ KeyEnterSort
    \/ KeyEnterRow
    \/ KeyEnterCancel
    \/ KeyEnterIdle
    \/ KeyEnterDrill(1)
    \/ KeyEscapeCancel
    \/ KeyEscapeReturn
    \/ KeyEnterReturn
    \/ current_view = "node_details" /\ Len(metric_columns) = Len(DefaultMetrics) /\ KeyAdd

SpecCommand == InitWith(StatusSteady, TwoIdleHosts) /\ [][NextCommand]_vars

\* what Enter in the command mode can do
EnterOps == {"sort", "sort_again", "row", "cancel", "enter_idle"}

\* a command the grammar rejects: a row number that is not a number or not
\* a row of the list on screen; a sort command without '+' or '-' after
\* the 's', with a column number outside 1..number of active columns, or
\* with a name that is not an active column
InvalidCommand(text) ==
    IF StartsWithS(text)
    THEN \/ Len(text) < 2
         \/ text[2] \notin SignKeys
         \/ LET column_input == SubSeq(text, 3, Len(text))
            IN IF ParseInt(column_input).ok
               THEN ParseInt(column_input).val \notin 1..Len(metric_columns)
               ELSE \A m \in Range(metric_columns) : Spelling[m] # column_input
    ELSE \/ ~ParseInt(text).ok
         \/ ParseInt(text).val \notin 1..RowCount

\* C20 as stated: Enter on an invalid command leaves the command mode with
\* an empty buffer and changes neither the row order, the sort key and
\* direction, the selected row, the view nor the columns
C20_InvalidCommandChangesNothing ==
    [][(/\ row_selection_mode /\ row_selection_input # <<>>
        /\ InvalidCommand(row_selection_input)
        /\ last_op' \in EnterOps) =>
          /\ ~row_selection_mode' /\ row_selection_input' = <<>>
          /\ UNCHANGED <<hosts, node_details, sort_column, sort_reverse, selected_row,
                         current_view, metric_columns>>]_vars

\* C21 as stated: from the command mode Enter or Escape always ends the
\* mode with an empty buffer, whatever the buffer holds, the empty buffer
\* included
C21_EnterEscapeEndCommandMode ==
    [][(row_selection_mode /\ last_op' \in EnterOps \cup {"escape_cancel"}) =>
          (~row_selection_mode' /\ row_selection_input' = <<>>)]_vars

----------------------------------------------------------------------------
(* Drill-down on host names and roles that contain "-".                    *)

\* host names with and without a dash, one a prefix of the other
DrillHosts == {<<"h">>, <<"h", DASH, "1">>}

\* Roles values with and without a dash
DrillRoles == {<<"DRIVES">>, <<"D", DASH, "R">>}

\* idle process rows of these hosts as `weka stats realtime` reports them
DrillRows(mode) ==
    [Hostname : DrillHosts,
     Roles : IF mode = "backend" THEN DrillRoles ELSE {<<>>},
     vals : {ZeroVals}]

\* the provider lists the processes host by host, a host's roles in turn
ListedBefore(a, b) ==
    \/ Len(a.Hostname) < Len(b.Hostname)
    \/ a.Hostname = b.Hostname /\ Len(a.Roles) < Len(b.Roles)

\* a failure, or at most two process rows
DrillStats(mode) ==
    {NoAnswer} \cup
    {[ok |-> TRUE, rows |-> r] :
        r \in {<<>>} \cup {<<a>> : a \in DrillRows(mode)}
                     \cup {<<p[1], p[2]>> :
                             p \in {q \in DrillRows(mode) \X DrillRows(mode) :
                                      ListedBefore(q[1], q[2])}}}

\* the answers to the drill-down query of group key `host`: all backend
\* processes in backend mode, the processes of `host` in client mode
DrillDetails(mode, host) ==
    IF mode = "backend" /\ HasDash(host) THEN DrillStats("backend")
    ELSE {a \in DrillStats("client") :
            \A i \in 1..Len(a.rows) : a.rows[i].Hostname = host}

DrillPollDetails ==
    IF merge_refetches(current_view, selected_host)
    THEN DrillDetails(current_mode, selected_host)
    ELSE {NoAnswer}

NextDrill ==
    \/ KeyModeMain(StatusSteady, DrillStats(OtherMode(current_mode)))
    \/ TickOn(StatusSteady, DrillStats(current_mode), DrillPollDetails)
    \/ \E key \in {"up", "down"} : KeyArrow(key)
    \/ KeyEnterDrillOn(DrillDetails(current_mode, PyIndex(hosts, selected_row).Hostname))
    \/ KeyEnterReturn
    \/ KeyEscapeReturn

SpecDrill == InitWith(StatusSteady, DrillStats("client")) /\ [][NextDrill]_vars

\* the drill-down view of a backend group
DrilledBackend ==
    current_view = "node_details" /\ current_mode = "backend" /\ selected_host # <<>>

\* the rows of the main table that carry the drilled group key
DrilledGroups == {i \in 1..Len(hosts) : hosts[i].Hostname = selected_host}

Resolves(key, base, role) ==
    base_hostname_of(key) = base /\ selected_role_of(key) = role

\* C22 as stated: the key of a drilled backend group resolves to the host
\* and the role it was built from, whatever the role string
C22_ResolvesAnyRole ==
    DrilledBackend =>
        \A i \in DrilledGroups :
            Resolves(selected_host, hosts[i].BaseHostname, hosts[i].Role)

\* C22 as the code has it: the key of a drilled backend group resolves to
\* the host and the role it was built from when the role holds no "-",
\* the host name may hold any
C22_ResolvesDashFreeRole ==
    DrilledBackend =>
        \A i \in DrilledGroups :
            ~HasDash(hosts[i].Role) =>
                Resolves(selected_host, hosts[i].BaseHostname, hosts[i].Role)

\* a refresh in the drill-down of a group whose host name holds a "-"
C22_Witness ==
    /\ DrilledBackend /\ last_op = "tick"
    /\ \E i \in DrilledGroups :
          HasDash(hosts[i].BaseHostname) /\ ~HasDash(hosts[i].Role)

----------------------------------------------------------------------------
(* The cluster summary: get_weka_status keeps nine fields of the JSON      *)
(* object of `weka status -J`, update_cluster_status_display formats them. *)

StatusScalars == {"release", "name", "status", "active_alerts_count"}
StatusObjects == {"capacity", "clients", "io_nodes", "activity", "buckets"}
StatusFields == StatusScalars \cup StatusObjects

\* the sub-fields the summary reads
SubFields(k) ==
    CASE k = "capacity" -> {"total_bytes", "unprovisioned_bytes"}
      [] k = "clients" -> {"active"}
      [] k = "io_nodes" -> {"active"}
      [] k = "activity" -> {"num_ops", "num_reads", "num_writes",
                            "sum_bytes_read", "sum_bytes_written"}
      [] k = "buckets" -> {"total", "active"}
      [] OTHER -> {}

\* a JSON value: a key that is absent, a scalar, or an object with the
\* sub-fields `has`; a scalar and a sub-field that is present hold 1
AbsentValue == [kind |-> "absent", has |-> {}]
ScalarValue == [kind |-> "value", has |-> {}]
NoneValue == [kind |-> "none", has |-> {}]
ObjectValue(subs) == [kind |-> "object", has |-> subs]

\* the objects of field k: every subset of its sub-fields, for activity
\* none or all of them
ObjectsOf(k) ==
    IF k = "activity" THEN {ObjectValue({}), ObjectValue(SubFields(k))}
    ELSE {ObjectValue(subs) : subs \in SUBSET SubFields(k)}

\* what field k of the JSON object can be
ValuesOf(k) == {AbsentValue} \cup (IF k \in StatusScalars THEN {ScalarValue} ELSE ObjectsOf(k))

\* json.loads(result.stdout): objects with any subset of the fields
StatusJsons ==
    {[k \in StatusFields |->
        IF k \in StatusScalars THEN sc[k]
        ELSE CASE k = "capacity" -> capacity [] k = "clients" -> clients
               [] k = "io_nodes" -> io_nodes [] k = "activity" -> activity
               [] OTHER -> buckets] :
        sc \in [StatusScalars -> ValuesOf("release")],
        capacity \in ValuesOf("capacity"), clients \in ValuesOf("clients"),
        io_nodes \in ValuesOf("io_nodes"), activity \in ValuesOf("activity"),
        buckets \in ValuesOf("buckets")}

\* full_data.get(k): None for a key that is absent
full_data_get(j, k) == IF j[k].kind = "absent" THEN NoneValue ELSE j[k]

\* optimized_data: all nine keys, whatever the JSON object held
optimized_data(j) ==
    [present |-> TRUE, status |-> "OK",
     fields |-> [k \in StatusFields |-> full_data_get(j, k)]]

\* dict.get(k, default)
DictGet(d, k, default) == IF k \in DOMAIN d THEN d[k] ELSE default

\* info.get(sub, 0) on an object
SubGet(info, sub) == IF sub \in info.has THEN 1 ELSE 0

\* how a scalar reads in the f-string
Shown(v) == IF v.kind = "none" THEN "None" ELSE "1"

ErrorText == [outcome |-> "error", words |-> <<>>, numbers |-> <<>>]

\* update_cluster_status_display on a stored snapshot
status_text_of(cs) ==
    LET f == cs.fields
        version == DictGet(f, "release", "Unknown")
        cluster_name == DictGet(f, "name", "Unknown")
        protection == DictGet(f, "status", "Unknown")
        capacity_info == DictGet(f, "capacity", ObjectValue({}))
        clients_info == DictGet(f, "clients", ObjectValue({}))
        io_nodes_info == DictGet(f, "io_nodes", ObjectValue({}))
        activity == DictGet(f, "activity", ObjectValue({}))
        alert_count == DictGet(f, "active_alerts_count", "0")
        buckets_info == DictGet(f, "buckets", ObjectValue({}))
    IN \* None.get(...) raises AttributeError
       IF \E info \in {capacity_info, activity, buckets_info} : info.kind # "object"
       THEN ErrorText
       ELSE [outcome |-> "summary",
             words |->
               [Release |-> Shown(version), Cluster |-> Shown(cluster_name),
                Status |-> Shown(protection),
                IONodes |-> IF io_nodes_info.kind = "object"
                            THEN (IF SubGet(io_nodes_info, "active") = 1 THEN "1" ELSE "0")
                            ELSE Shown(io_nodes_info),
                Alerts |-> Shown(alert_count)],
             numbers |->
               [Capacity |-> SubGet(capacity_info, "total_bytes"),
                Used |-> SubGet(capacity_info, "total_bytes")
                           - SubGet(capacity_info, "unprovisioned_bytes"),
                Clients |-> IF clients_info.kind = "object"
                            THEN SubGet(clients_info, "active") ELSE 0,
                Buckets |-> SubGet(buckets_info, "total"),
                ActiveBuckets |-> SubGet(buckets_info, "active"),
                DownBuckets |-> SubGet(buckets_info, "total")
                                  - SubGet(buckets_info, "active"),
                OPS |-> SubGet(activity, "num_ops"),
                Reads |-> SubGet(activity, "num_reads"),
                Writes |-> SubGet(activity, "num_writes"),
                Throughput |-> SubGet(activity, "sum_bytes_read")
                                 + SubGet(activity, "sum_bytes_written"),
                ReadThroughput |-> SubGet(activity, "sum_bytes_read"),
                WriteThroughput |-> SubGet(activity, "sum_bytes_written")]]

\* get_weka_status, returncode 0: the snapshot is stored
GetWekaStatus ==
    /\ last_op = "init"
    /\ \E j \in StatusJsons : cluster_status' = optimized_data(j)
    /\ status_stale' = FALSE
    /\ last_op' = "status" /\ calls' = {"status"}
    /\ UNCHANGED <<hosts, node_details, selected_row, sortvars, refresh_rate,
                   loopvars, viewvars, running>>

\* update_cluster_status_display
UpdateClusterStatusDisplay ==
    /\ last_op = "status"
    /\ cluster_status_text' = status_text_of(cluster_status)
    /\ last_op' = "status_display" /\ calls' = {}
    /\ UNCHANGED <<datavars, loopvars, colvars, inputvars, current_mode, current_view,
                   selected_host, showing_help, role_filters, csv_rows, totals,
                   running>>

NextStatus == GetWekaStatus \/ UpdateClusterStatusDisplay

SpecStatus == InitWith({[ok |-> FALSE, data |-> EmptyStatus]}, {NoAnswer})
              /\ [][NextStatus]_vars

\* C23 as stated: whatever fields the snapshot lacks, the summary is drawn,
\* never the error text, and every scalar it lacks reads as zero or Unknown
C23_AbsenceNeverFatal ==
    last_op = "status_display" =>
        /\ cluster_status_text.outcome = "summary"
        /\ \A k \in {"Release", "Cluster", "Status", "IONodes", "Alerts"} :
              cluster_status_text.words[k] \in {"0", "1", "Unknown"}

\* the branches Enter and Escape can take
EnterBranches == EnterOps \cup {"drill", "crash", "enter_return"}
EscapeBranches == {"escape_cancel", "escape_return", "escape_idle"}

\* C24: from the drill-down view outside the command mode Enter or Escape
\* switches to the main view, clears selected_host and node_details, sets
\* selected_row to 0 and restores the column snapshot; in the command mode
\* Escape only ends the command mode and the drill-down view stays
C24_ReturnToMain ==
    [][/\ (current_view = "node_details" /\ ~row_selection_mode
             /\ last_op' \in EnterBranches \cup EscapeBranches) =>
          (/\ current_view' = "main" /\ selected_host' = <<>> /\ node_details' = <<>>
           /\ selected_row' = 0 /\ metric_columns' = main_view_metric_columns
           /\ ~row_selection_mode')
       /\ (current_view = "node_details" /\ row_selection_mode
             /\ last_op' \in EscapeBranches) =>
          (/\ ~row_selection_mode' /\ row_selection_input' = <<>>
           /\ current_view' = "node_details"
           /\ UNCHANGED <<selected_host, node_details, selected_row, metric_columns,
                          main_view_metric_columns, hosts>>)]_vars

\* the main view after a return from a drill-down
C24_Witness ==
    /\ last_op \in {"enter_return", "escape_return"}
    /\ current_view = "main" /\ metric_columns = DefaultMetrics
    /\ selected_row = 0 /\ node_details = <<>> /\ Len(hosts) = 2

\* the roles whose filter a step has changed
FlippedRoles == {r \in RoleFilterKeys : role_filters'[r] # role_filters[r]}

\* C25: a key 1, 2 or 3 in the backend drill-down flips one role filter and
\* leaves the fetched rows, the totals, the columns, the sort state and the
\* host rows as they were, the totals row being drawn whatever the filters;
\* elsewhere such a key changes no role filter
C25_ToggleFlipsOneFilter ==
    [][last_op' \in {"role_filter", "cycle"} =>
         IF current_view = "node_details" /\ current_mode = "backend"
         THEN /\ Cardinality(FlippedRoles) = 1
              /\ UNCHANGED <<node_details, hosts, totals, metric_columns,
                             sort_column, sort_reverse>>
              /\ node_details # <<>> => totals' # <<>>
         ELSE role_filters' = role_filters]_vars

\* the backend drill-down with rows after a toggle that has hidden a role
\* of which it has rows
C25_Witness ==
    /\ last_op = "role_filter" /\ current_mode = "backend"
    /\ \E i \in 1..Len(node_details) :
          /\ node_details[i].role = <<"DRIVES">>
          /\ ~role_filters["DRIVES"] /\ role_filters["COMPUTE"]
    /\ totals # <<>>

----------------------------------------------------------------------------
(* sort_data applied to rows as fetched, in the main view and in the       *)
(* client drill-down, once and again.                                      *)

\* the process rows of host h1 a drill-down query reports
SortingTexts == BoundedSeq([Hostname : {<<"h", "1">>}, Roles : {<<>>}, vals : RawVals],
                           MaxCsv)

\* the metrics sorted on: one whose values vary, one that is level
SortingMetrics == VariedMetrics \cup {"CPU%"}

InitSorting ==
    \E view \in Views : \E text \in SortingTexts : \E ra \in ClientStats :
        /\ current_mode = "client"
        /\ current_view = view
        /\ hosts = get_weka_stats(ra, "client", DefaultMetrics)
        /\ selected_host = IF view = "main" THEN <<>> ELSE <<"h", "1">>
        /\ node_details = IF view = "main" THEN <<>>
                          ELSE parse_node_details_csv(text, DefaultMetrics)
        /\ csv_rows = <<>>
        /\ cluster_status = EmptyStatus
        /\ refresh_rate = 10
        /\ calls = {}
        /\ last_op = "init"
        /\ Defaults

\* sort_data(metric_name, ascending)
SortData(metric_name, ascending) ==
    /\ running
    /\ sort_data(metric_name, ascending)
    /\ last_op' = "sort_data" /\ calls' = {}
    /\ UNCHANGED <<last_sort_command, pollvars, loopvars, viewvars, running>>

NextSorting == \E metric_name \in SortingMetrics, ascending \in BOOLEAN :
                  SortData(metric_name, ascending)

SpecSorting == InitSorting /\ [][NextSorting]_vars

\* C26: sort_data with the key and the direction of the sort_data before it
\* leaves the rows of the view as that one left them
C26_SortIdempotent ==
    [][(last_op = "sort_data" /\ last_op' = "sort_data"
          /\ sort_column' = sort_column /\ sort_reverse' = sort_reverse) =>
         (ViewRows' = ViewRows /\ selected_row' = selected_row)]_vars

\* the drill-down sorted in descending order, two of three rows level
C26_Witness ==
    /\ last_op = "sort_data" /\ current_view = "node_details" /\ sort_reverse
    /\ sort_column \in VariedMetrics
    /\ Len(node_details) = 3
    /\ node_details[1].vals[sort_column] > node_details[2].vals[sort_column]
    /\ node_details[2].vals[sort_column] = node_details[3].vals[sort_column]

\* C27 as stated: Enter in the main view outside the command mode opens the
\* drill-down exactly when 0 <= selected_row < len(hosts), on the group key
\* of that row; otherwise the main view stays and selected_host stays unset
C27_EnterDrillsValidRow ==
    [][(current_view = "main" /\ ~row_selection_mode /\ last_op' \in EnterBranches) =>
         IF 0 <= selected_row /\ selected_row < Len(hosts)
         THEN /\ current_view' = "node_details"
              /\ selected_host' = hosts[selected_row + 1].Hostname
         ELSE current_view' = "main" /\ selected_host' = <<>>]_vars

\* the branches of handle_input a letter or a digit key can take
LetterDigitBranches ==
    {"append", "quit", "help", "mode_main", "mode_details", "sort_prompt", "add",
     "remove", "role_filter", "quick_drill", "quick_drill_rejected", "cycle"}

\* C28 as stated: in the command mode a digit or a letter is appended to the
\* buffer and nothing else changes
C28_CommandModeKeyOnlyAppends ==
    [][(row_selection_mode /\ last_op' \in LetterDigitBranches) =>
         /\ Len(row_selection_input') = Len(row_selection_input) + 1
         /\ SubSeq(row_selection_input', 1, Len(row_selection_input)) = row_selection_input
         /\ row_selection_mode'
         /\ UNCHANGED <<metric_columns, current_mode, role_filters, showing_help,
                        current_view, hosts, node_details, running>>]_vars

\* C29 as stated: the drill-down rows are process rows of the selected
\* group only: of the resolved base host, exactly, and in backend mode of
\* the selected role
C29_DrillRowsOfSelectedGroup ==
    (current_view = "node_details" /\ selected_host # <<>>) =>
        \A i \in 1..Len(node_details) :
            IF current_mode = "backend" /\ HasDash(selected_host)
            THEN /\ node_details[i].hostname = base_hostname_of(selected_host)
                 /\ node_details[i].role = selected_role_of(selected_host)
            ELSE node_details[i].hostname = selected_host

\* the metric a column text names: the 1-based slot of an active column or
\* the name of one
ColumnNamed(text, m) ==
    /\ m \in Range(metric_columns)
    /\ \/ \E d \in 1..Len(metric_columns) :
             d <= 9 /\ text = <<Digits[d + 1]>> /\ m = metric_columns[d]
       \/ text = Spelling[m]

\* C30 as stated: a valid s+<col> or s-<col> leaves the rows of the view in
\* ascending or descending order of that metric, the sort key that metric,
\* the direction that of the sign, the command mode ended and selected_row 0
C30_SortCommandSorts ==
    [][last_op' \in {"sort", "sort_again"} =>
         /\ ColumnNamed(SubSeq(row_selection_input, 3, Len(row_selection_input)),
                        sort_column')
         /\ sort_reverse' = (row_selection_input[2] = "-")
         /\ IsOrdered(ViewRows', sort_column', sort_reverse')
         /\ ~row_selection_mode'
         /\ selected_row' = 0]_vars

----------------------------------------------------------------------------
(* Sorting rows whose sort metric has no value: the cell is empty in the   *)
(* CSV text of one host and a number in the text of another.               *)

\* CSV rows of one process per host, the varied metric's cell empty or set
GappedRows ==
    {[Hostname |-> h, Roles |-> <<>>, vals |-> v, empty |-> e] :
        h \in HostNames, v \in RawVals, e \in {{}, VariedMetrics}}

GappedTexts ==
    {t \in BoundedSeq(GappedRows, MaxCycles) :
        /\ \A i, j \in 1..Len(t) : t[i].Hostname = t[j].Hostname => i = j
        /\ \A i \in 1..Len(t) : t[i].empty # {} => t[i].vals = ZeroVals}

InitGapped ==
    \E text \in GappedTexts :
        /\ csv_rows = text
        /\ current_mode = "client"
        /\ hosts = get_weka_stats([ok |-> TRUE, rows |-> text], "client", DefaultMetrics)
        /\ current_view = "main"
        /\ selected_host = <<>>
        /\ node_details = <<>>
        /\ cluster_status = EmptyStatus
        /\ refresh_rate = 10
        /\ calls = {"stats"}
        /\ last_op = "init"
        /\ Defaults

NextGapped ==
    \/ \E metric_name \in VariedMetrics, ascending \in BOOLEAN :
          SortData(metric_name, ascending)
    \/ \E key \in {"up", "down"} : KeyArrow(key)

SpecGapped == InitGapped /\ [][NextGapped]_vars

\* host row i shows no value of metric m: its cell was empty in the text
NoValue(i, m) ==
    \E k \in 1..Len(csv_rows) :
        csv_rows[k].Hostname = hosts[i].Hostname /\ m \in EmptyCells(csv_rows[k])

\* C31 as stated: after a sort no row without a value of the sort metric
\* stands before a row with one, ascending or descending
C31_InvalidSinks ==
    last_op = "sort_data" =>
        \A i, j \in 1..Len(hosts) :
            (i < j /\ NoValue(i, sort_column)) => NoValue(j, sort_column)

----------------------------------------------------------------------------
(* cycle_column on every column configuration that add_column and          *)
(* remove_column produce from the defaults, with every key '1'..'9'.       *)

\* the configurations 'a' and 'r' reach: the first k catalog metrics
ColumnPrefixes == {SubSeq(Catalog, 1, k) : k \in 0..Len(Catalog)}

InitCycle ==
    \E cols \in ColumnPrefixes : \E ra \in OneIdleHost :
        /\ hosts = get_weka_stats(ra, "client", cols)
        /\ metric_columns = cols
        /\ main_view_metric_columns = cols
        /\ drill_entry_columns = cols
        /\ current_mode = "client"
        /\ current_view = "main"
        /\ selected_host = <<>>
        /\ node_details = <<>>
        /\ cluster_status = EmptyStatus
        /\ refresh_rate = 10
        /\ csv_rows = <<>>
        /\ calls = {}
        /\ last_op = "init"
        /\ selected_row = 0
        /\ row_selection_mode = FALSE
        /\ row_selection_input = <<>>
        /\ showing_help = FALSE
        /\ sort_column = ""
        /\ sort_reverse = FALSE
        /\ role_filters = [r \in RoleFilterKeys |-> TRUE]
        /\ running = TRUE
        /\ status_stale = FALSE
        /\ cycle_ops = 0
        /\ last_sort_command = <<>>
        /\ pc = "idle"
        /\ alarms = 1
        /\ totals = <<>>
        /\ cluster_status_text = InitialStatusText

\* the keys handled as column slots: 1 <= column_index <= 9
SlotKeys == 1..9

NextCycle == \E d \in SlotKeys : KeyCycle(d)

SpecCycle == InitCycle /\ [][NextCycle]_vars

\* the metrics shown in the slots other than d
OtherSlots(cols, d) == {cols[j] : j \in (1..Len(cols)) \ {d}}

\* the metric k places after m in catalog order, wrapping round
CatalogAfter(m, k) == Catalog[((CatalogIndex(m) - 1 + k) % Len(Catalog)) + 1]

\* the first metric after that of slot d that no other slot shows, the
\* metric of slot d itself when there is none
ExpectedMetric(cols, d) ==
    LET free == {k \in 1..(Len(Catalog) - 1) :
                    CatalogAfter(cols[d], k) \notin OtherSlots(cols, d)}
    IN IF free = {} THEN cols[d]
       ELSE CatalogAfter(cols[d], CHOOSE k \in free : \A l \in free : k <= l)

----------------------------------------------------------------------------
(* The two coercions on cell texts: one CSV row whose cells are spelled    *)
(* out character by character is parsed.                                   *)

\* the characters a spelled-out cell can hold
CellChars == {"3", "B", ",", " ", "-"}

\* the texts of a cell
CellTexts == BoundedSeq(CellChars, MaxCsv)

\* a provider prints the same text into every metric cell of its one row
InitCoerce ==
    \E text \in CellTexts :
        /\ csv_rows = <<[Hostname |-> <<"h", "1">>, Roles |-> <<>>, vals |-> ZeroVals,
                         cells |-> [m \in CatalogSet |-> text]]>>
        /\ current_mode = "client"
        /\ hosts = <<>>
        /\ current_view = "main"
        /\ selected_host = <<>>
        /\ node_details = <<>>
        /\ cluster_status = EmptyStatus
        /\ refresh_rate = 10
        /\ calls = {}
        /\ last_op = "init"
        /\ Defaults

\* the row is parsed under the default columns or with "L6 Recv" added
NextCoerce ==
    \/ ParseStats
    \/ last_op = "init" /\ Len(metric_columns) = Len(DefaultMetrics) /\ KeyAdd

SpecCoerce == InitCoerce /\ [][NextCoerce]_vars

\* the leading whitespace-delimited token of a text, '' when it has none
LeadingToken(s) == IF split(s) = <<>> THEN <<>> ELSE split(s)[1]

\* C33 as stated: the bandwidth coercion of a cell gives the number the
\* general coercion gives for the cell's leading whitespace-delimited
\* token, so the parsed "L6 Recv" value of the row is _to_float of that
\* token
C33_BandwidthIsFloatOfToken ==
    (last_op = "parse" /\ "L6 Recv" \in Range(metric_columns)) =>
        \A i \in 1..Len(hosts) :
            hosts[i].vals["L6 Recv"] =
                to_float(LeadingToken(csv_rows[i].cells["L6 Recv"])) * Scale

----------------------------------------------------------------------------
(* The selected host and the view.                                         *)

\* C34 as stated: in the drill-down the selected host is set, and in the
\* main view it is None and there are no node details
C34_HostSetExactlyInDrillDown ==
    /\ current_view = "node_details" => selected_host # <<>>
    /\ current_view = "main" => selected_host = <<>> /\ node_details = <<>>

----------------------------------------------------------------------------
(* The mode the rows of the main table were fetched under.                 *)

\* a row built by the backend aggregation carries the role of its group,
\* a row built by the client aggregation carries none
FetchedUnder(row) == IF row.Role # <<>> THEN "backend" ELSE "client"

\* C35 as stated: the rows shown in the main view were fetched under the
\* current mode
C35_MainRowsOfCurrentMode ==
    current_view = "main" =>
        \A i \in 1..Len(hosts) : FetchedUnder(hosts[i]) = current_mode

----------------------------------------------------------------------------
(* Poll cycles under a moved selection: sorts, arrow keys and refreshes of  *)
(* the main view in client mode.                                           *)

NextRefresh ==
    \/ Tick(StatusSteady, ClientStats, MaxRaw)
    \/ \E metric_name \in VariedMetrics, ascending \in BOOLEAN :
          SortData(metric_name, ascending)
    \/ \E key \in {"up", "down"} : KeyArrow(key)

SpecRefresh == InitWith(StatusSteady, ClientStats) /\ [][NextRefresh]_vars

\* C36 as stated: a poll cycle after which the view on screen has more than
\* selected_row rows leaves selected_row as it was, with or without a sort
\* key
C36_PollKeepsSelection ==
    [][(last_op' = "tick" /\ Len(ViewRows') > selected_row) =>
          selected_row' = selected_row]_vars

====
